---- MODULE Spec2Model ----
(***************************************************************************)
(* VotingSystem (src/src/VotingSystem.sol): the vote ledger of the         *)
(* anonymous voting protocol.  One action per external function of the     *)
(* contract; a transaction either commits all its writes or reverts and    *)
(* commits none.  `last` is the receipt of the most recent transaction.    *)
(* The owner set by the constructor stays the owner; the verifier is an    *)
(* external contract whose answer is an input of each castVote call.       *)
(* The relaying backend (src/unnamed/part_005, from line 631) and the      *)
(* relayer scripts are modelled next to the ledger: one action per stretch *)
(* of POST /api/vote/submit between two awaits.  The offline verifier      *)
(* (zk/verify-proof.js) is a function of the proofs stored in proof.json.  *)
(***************************************************************************)
EXTENDS Integers, Sequences, FiniteSets, TLC

\* ---------------------------------------------------------------- bounds
MaxTime == 2
MaxCandidateCount == 2
\* number of POST /api/vote/submit requests in a run
MaxRequests == 2
\* number of votes in a tally handed to getResultPercentages
MaxVotes == 3
\* number of proofs stored in proof.json
MaxProofs == 3

\* ------------------------------------------------------- program constants
GROUP_ID == 1

\* the zero address and the accounts of the test suite
ZERO_ADDRESS == "address(0)"
owner == "owner"
relayer1 == "relayer1"
relayer2 == "relayer2"

Addresses == {ZERO_ADDRESS, owner, relayer1, relayer2}
Times == 0..MaxTime
\* nullifier hashes submitted by testMultipleVotesFromDifferentRelayers
Nullifiers == {11111, 22222}
CandidateIds == 0..MaxCandidateCount
GroupIds == {GROUP_ID}
\* what the external call semaphoreVerifier.verifyProof can do
VerifierAnswers == {"true", "false", "revert"}

VARIABLES
    votingGroupId, votingStartTime, votingEndTime, votingInitialized,
    voteCounts, usedNullifiers, totalVotes, candidateCount,
    authorizedRelayers, relayerAddresses,
    paused,          \* Pausable._paused
    now,             \* block.timestamp
    voteCastLog,     \* the VoteCast events emitted so far, oldest first
    last,            \* receipt of the most recent transaction
    relayerWallets,  \* backend: wallets loaded from RELAYER_PRIVATE_KEY_i
    nullifierCache,  \* backend: the Set usedNullifiers and the NodeCache
    sessionCache,    \* backend: hasVoted of each session
    votingStats,     \* backend: totalVotes, transactions, errors
    handler,         \* backend: the request each session has in progress
    received,        \* backend: number of submit requests received
    mempool          \* transactions sent and not yet mined

config == <<votingGroupId, votingStartTime, votingEndTime, votingInitialized, candidateCount>>
votes == <<voteCounts, usedNullifiers, totalVotes, voteCastLog>>
registry == <<authorizedRelayers, relayerAddresses>>
ledger == <<config, votes, registry, paused>>
backend == <<relayerWallets, nullifierCache, sessionCache, votingStats, handler, received, mempool>>
vars == <<ledger, now, last, backend>>

NoCall == [op |-> "none", caller |-> ZERO_ADDRESS, args |-> <<>>, result |-> "ok"]
Receipt(op, caller, args, result) ==
    [op |-> op, caller |-> caller, args |-> args, result |-> result]

\* the sessions of the backend
Sessions == {"session1", "session2"}
\* the wallet lists the environment can hold
WalletLists == {<<>>, <<relayer1>>, <<relayer1, relayer2>>}

IdleHandler ==
    [pc |-> "idle", candidateId |-> 0, nullifierHash |-> 0, publicSignal0 |-> "",
     proof |-> "", relayer |-> ZERO_ADDRESS, status |-> 0, code |-> ""]

\* the backend process after start-up with the wallets `wallets`
Startup(wallets) ==
    /\ relayerWallets = wallets
    /\ nullifierCache = {}
    /\ sessionCache = [s \in Sessions |-> [hasVoted |-> FALSE]]
    /\ votingStats = [totalVotes |-> 0, transactions |-> <<>>, errors |-> <<>>]
    /\ handler = [s \in Sessions |-> IdleHandler]
    /\ received = 0
    /\ mempool = {}

\* the contract after its constructor
Deployed ==
    /\ votingGroupId = 0
    /\ votingStartTime = 0
    /\ votingEndTime = 0
    /\ votingInitialized = FALSE
    /\ voteCounts = [i \in CandidateIds |-> 0]
    /\ usedNullifiers = [n \in Nullifiers |-> FALSE]
    /\ totalVotes = 0
    /\ candidateCount = 0
    /\ authorizedRelayers = [a \in Addresses |-> FALSE]
    /\ relayerAddresses = <<>>
    /\ paused = FALSE
    /\ now = 0
    /\ voteCastLog = <<>>
    /\ last = NoCall

Init == Deployed /\ Startup(<<>>)

\* ------------------------------------------------------------- modifiers
\* mutant: a registered relayer passes as well
onlyOwner_OrRelayer(caller) == caller = owner \/ authorizedRelayers[caller]
onlyOwner(caller) == caller = owner
whenNotPaused == ~paused
\* mutant: the end of the window is not checked
onlyDuringVoting_NoEnd == ~(now < votingStartTime)
\* mutant: the window is closed at votingEndTime already
onlyDuringVoting_ExclusiveEnd == ~(now < votingStartTime \/ now >= votingEndTime)
onlyDuringVoting == ~(now < votingStartTime \/ now > votingEndTime)
\* mutant: any account that was ever listed, or the owner, passes
onlyAuthorizedRelayer_OrOwner(caller) == authorizedRelayers[caller] \/ caller = owner
onlyAuthorizedRelayer(caller) == authorizedRelayers[caller]

\* -------------------------------------------------------- initializeVoting
\* mutant: the votingInitialized check is missing
initializeVotingError_NoInitCheck(caller, _groupId, _startTime, _endTime, _candidateCount) ==
    IF ~onlyOwner(caller) THEN "OwnableUnauthorizedAccount"
    ELSE IF _startTime >= _endTime \/ _startTime < now THEN "InvalidTimeRange"
    ELSE IF _candidateCount = 0 THEN "InvalidCandidate"
    ELSE "ok"

\* mutant: a start time in the past is not refused
initializeVotingError_NoPastCheck(caller, _groupId, _startTime, _endTime, _candidateCount) ==
    IF ~onlyOwner(caller) THEN "OwnableUnauthorizedAccount"
    ELSE IF votingInitialized THEN "VotingAlreadyInitialized"
    ELSE IF _startTime >= _endTime THEN "InvalidTimeRange"
    ELSE IF _candidateCount = 0 THEN "InvalidCandidate"
    ELSE "ok"

\* mutant: a candidate count of zero is not refused
initializeVotingError_NoCountCheck(caller, _groupId, _startTime, _endTime, _candidateCount) ==
    IF ~onlyOwner(caller) THEN "OwnableUnauthorizedAccount"
    ELSE IF votingInitialized THEN "VotingAlreadyInitialized"
    ELSE IF _startTime >= _endTime \/ _startTime < now THEN "InvalidTimeRange"
    ELSE "ok"

initializeVotingError(caller, _groupId, _startTime, _endTime, _candidateCount) ==
    IF ~onlyOwner(caller) THEN "OwnableUnauthorizedAccount"
    ELSE IF votingInitialized THEN "VotingAlreadyInitialized"
    ELSE IF _startTime >= _endTime \/ _startTime < now THEN "InvalidTimeRange"
    ELSE IF _candidateCount = 0 THEN "InvalidCandidate"
    ELSE "ok"

initializeVoting(caller, _groupId, _startTime, _endTime, _candidateCount) ==
    LET err == initializeVotingError(caller, _groupId, _startTime, _endTime, _candidateCount) IN
    /\ last' = Receipt("initializeVoting", caller,
                       <<_groupId, _startTime, _endTime, _candidateCount>>, err)
    /\ IF err = "ok"
       THEN /\ votingGroupId' = _groupId
            /\ votingStartTime' = _startTime
            /\ votingEndTime' = _endTime
            /\ candidateCount' = _candidateCount
            /\ votingInitialized' = TRUE
       ELSE UNCHANGED config
    /\ UNCHANGED <<votes, registry, paused, now>>

\* -------------------------------------------------------------- addRelayer
\* mutant: a registered address is registered again
addRelayerError_NoDuplicateCheck(caller, _relayer) ==
    IF ~onlyOwner(caller) THEN "OwnableUnauthorizedAccount"
    ELSE IF _relayer = ZERO_ADDRESS THEN "Invalid relayer address"
    ELSE "ok"

\* mutant: relayers are registered only while the ledger is not paused
addRelayerError_WhenNotPaused(caller, _relayer) ==
    IF ~onlyOwner(caller) THEN "OwnableUnauthorizedAccount"
    ELSE IF ~whenNotPaused THEN "EnforcedPause"
    ELSE IF _relayer = ZERO_ADDRESS THEN "Invalid relayer address"
    ELSE IF authorizedRelayers[_relayer] THEN "Relayer already exists"
    ELSE "ok"

addRelayerError(caller, _relayer) ==
    IF ~onlyOwner(caller) THEN "OwnableUnauthorizedAccount"
    ELSE IF _relayer = ZERO_ADDRESS THEN "Invalid relayer address"
    ELSE IF authorizedRelayers[_relayer] THEN "Relayer already exists"
    ELSE "ok"

addRelayer(caller, _relayer) ==
    LET err == addRelayerError(caller, _relayer) IN
    /\ last' = Receipt("addRelayer", caller, <<_relayer>>, err)
    /\ IF err = "ok"
       THEN /\ authorizedRelayers' = [authorizedRelayers EXCEPT ![_relayer] = TRUE]
            /\ relayerAddresses' = Append(relayerAddresses, _relayer)
       ELSE UNCHANGED registry
    /\ UNCHANGED <<config, votes, paused, now>>

\* ----------------------------------------------------------- removeRelayer
removeRelayerError(caller, _relayer) ==
    IF ~onlyOwner(caller) THEN "OwnableUnauthorizedAccount"
    ELSE IF ~authorizedRelayers[_relayer] THEN "Relayer not found"
    ELSE "ok"

\* mutant: the array is popped and the entry of _relayer is not overwritten
RemoveFromArray_PopOnly(arr, _relayer) ==
    IF Len(arr) = 0 THEN arr ELSE SubSeq(arr, 1, Len(arr) - 1)

\* the loop of removeRelayer: the first occurrence is overwritten by the
\* last element and the array is popped
RemoveFromArray(arr, _relayer) ==
    LET hits == {i \in 1..Len(arr) : arr[i] = _relayer} IN
    IF hits = {} THEN arr
    ELSE LET i == CHOOSE k \in hits : \A j \in hits : k <= j
             moved == [arr EXCEPT ![i] = arr[Len(arr)]]
         IN SubSeq(moved, 1, Len(arr) - 1)

removeRelayer(caller, _relayer) ==
    LET err == removeRelayerError(caller, _relayer) IN
    /\ last' = Receipt("removeRelayer", caller, <<_relayer>>, err)
    /\ IF err = "ok"
       THEN /\ authorizedRelayers' = [authorizedRelayers EXCEPT ![_relayer] = FALSE]
            /\ relayerAddresses' = RemoveFromArray(relayerAddresses, _relayer)
       ELSE UNCHANGED registry
    /\ UNCHANGED <<config, votes, paused, now>>

\* ---------------------------------------------------------------- castVote
\* publicSignal0 is publicSignals[0]; verifierAnswer is what
\* semaphoreVerifier.verifyProof does for this call's proof and signals
\* mutant: the usedNullifiers check is missing
castVoteError_NoNullifierCheck(caller, candidateId, nullifierHash, publicSignal0, verifierAnswer) ==
    IF ~whenNotPaused THEN "EnforcedPause"
    ELSE IF ~onlyDuringVoting THEN "VotingNotActive"
    ELSE IF ~onlyAuthorizedRelayer(caller) THEN "UnauthorizedRelayer"
    ELSE IF candidateId >= candidateCount THEN "InvalidCandidate"
    ELSE IF candidateId # publicSignal0 THEN "InvalidCandidate"
    ELSE IF verifierAnswer = "revert" THEN "VerifierReverted"
    ELSE IF verifierAnswer # "true" THEN "InvalidProof"
    ELSE "ok"

\* mutant: candidateId is not compared with publicSignals[0]
castVoteError_NoSignalCheck(caller, candidateId, nullifierHash, publicSignal0, verifierAnswer) ==
    IF ~whenNotPaused THEN "EnforcedPause"
    ELSE IF ~onlyDuringVoting THEN "VotingNotActive"
    ELSE IF ~onlyAuthorizedRelayer(caller) THEN "UnauthorizedRelayer"
    ELSE IF candidateId >= candidateCount THEN "InvalidCandidate"
    ELSE IF usedNullifiers[nullifierHash] THEN "NullifierAlreadyUsed"
    ELSE IF verifierAnswer = "revert" THEN "VerifierReverted"
    ELSE IF verifierAnswer # "true" THEN "InvalidProof"
    ELSE "ok"

\* mutant: candidateId is not compared with candidateCount
castVoteError_NoBoundCheck(caller, candidateId, nullifierHash, publicSignal0, verifierAnswer) ==
    IF ~whenNotPaused THEN "EnforcedPause"
    ELSE IF ~onlyDuringVoting THEN "VotingNotActive"
    ELSE IF ~onlyAuthorizedRelayer(caller) THEN "UnauthorizedRelayer"
    ELSE IF candidateId # publicSignal0 THEN "InvalidCandidate"
    ELSE IF usedNullifiers[nullifierHash] THEN "NullifierAlreadyUsed"
    ELSE IF verifierAnswer = "revert" THEN "VerifierReverted"
    ELSE IF verifierAnswer # "true" THEN "InvalidProof"
    ELSE "ok"

\* mutant: the bound is compared with > instead of >=
castVoteError_BoundOffByOne(caller, candidateId, nullifierHash, publicSignal0, verifierAnswer) ==
    IF ~whenNotPaused THEN "EnforcedPause"
    ELSE IF ~onlyDuringVoting THEN "VotingNotActive"
    ELSE IF ~onlyAuthorizedRelayer(caller) THEN "UnauthorizedRelayer"
    ELSE IF candidateId > candidateCount THEN "InvalidCandidate"
    ELSE IF candidateId # publicSignal0 THEN "InvalidCandidate"
    ELSE IF usedNullifiers[nullifierHash] THEN "NullifierAlreadyUsed"
    ELSE IF verifierAnswer = "revert" THEN "VerifierReverted"
    ELSE IF verifierAnswer # "true" THEN "InvalidProof"
    ELSE "ok"

\* mutant: the answer of the verifier is not looked at
castVoteError_NoProofCheck(caller, candidateId, nullifierHash, publicSignal0, verifierAnswer) ==
    IF ~whenNotPaused THEN "EnforcedPause"
    ELSE IF ~onlyDuringVoting THEN "VotingNotActive"
    ELSE IF ~onlyAuthorizedRelayer(caller) THEN "UnauthorizedRelayer"
    ELSE IF candidateId >= candidateCount THEN "InvalidCandidate"
    ELSE IF candidateId # publicSignal0 THEN "InvalidCandidate"
    ELSE IF usedNullifiers[nullifierHash] THEN "NullifierAlreadyUsed"
    ELSE IF verifierAnswer = "revert" THEN "VerifierReverted"
    ELSE "ok"

\* mutant: the verifier is asked before the nullifier is looked up
castVoteError_ProofBeforeNullifier(caller, candidateId, nullifierHash, publicSignal0, verifierAnswer) ==
    IF ~whenNotPaused THEN "EnforcedPause"
    ELSE IF ~onlyDuringVoting THEN "VotingNotActive"
    ELSE IF ~onlyAuthorizedRelayer(caller) THEN "UnauthorizedRelayer"
    ELSE IF candidateId >= candidateCount THEN "InvalidCandidate"
    ELSE IF candidateId # publicSignal0 THEN "InvalidCandidate"
    ELSE IF verifierAnswer = "revert" THEN "VerifierReverted"
    ELSE IF verifierAnswer # "true" THEN "InvalidProof"
    ELSE IF usedNullifiers[nullifierHash] THEN "NullifierAlreadyUsed"
    ELSE "ok"

castVoteError(caller, candidateId, nullifierHash, publicSignal0, verifierAnswer) ==
    IF ~whenNotPaused THEN "EnforcedPause"
    ELSE IF ~onlyDuringVoting THEN "VotingNotActive"
    ELSE IF ~onlyAuthorizedRelayer(caller) THEN "UnauthorizedRelayer"
    ELSE IF candidateId >= candidateCount THEN "InvalidCandidate"
    ELSE IF candidateId # publicSignal0 THEN "InvalidCandidate"
    ELSE IF usedNullifiers[nullifierHash] THEN "NullifierAlreadyUsed"
    ELSE IF verifierAnswer = "revert" THEN "VerifierReverted"
    ELSE IF verifierAnswer # "true" THEN "InvalidProof"
    ELSE "ok"

VoteCast(candidateId, nullifierHash, relayer, timestamp) ==
    [candidateId |-> candidateId, nullifierHash |-> nullifierHash,
     relayer |-> relayer, timestamp |-> timestamp]

\* mutant: the nullifier is marked before the proof is verified, and an
\* invalid proof returns instead of reverting
castVote_MarksBeforeVerify(caller, candidateId, nullifierHash, publicSignal0, verifierAnswer) ==
    LET err == castVoteError(caller, candidateId, nullifierHash, publicSignal0, verifierAnswer) IN
    /\ last' = Receipt("castVote", caller,
                       <<candidateId, nullifierHash, publicSignal0, verifierAnswer>>, err)
    /\ IF err = "ok"
       THEN /\ usedNullifiers' = [usedNullifiers EXCEPT ![nullifierHash] = TRUE]
            /\ voteCounts' = [voteCounts EXCEPT ![candidateId] = @ + 1]
            /\ totalVotes' = totalVotes + 1
            /\ voteCastLog' = Append(voteCastLog,
                                     VoteCast(candidateId, nullifierHash, caller, now))
       ELSE IF err = "InvalidProof"
       THEN /\ usedNullifiers' = [usedNullifiers EXCEPT ![nullifierHash] = TRUE]
            /\ UNCHANGED <<voteCounts, totalVotes, voteCastLog>>
       ELSE UNCHANGED votes
    /\ UNCHANGED <<config, registry, paused, now>>

\* mutant: totalVotes is not incremented
castVote_NoTotal(caller, candidateId, nullifierHash, publicSignal0, verifierAnswer) ==
    LET err == castVoteError(caller, candidateId, nullifierHash, publicSignal0, verifierAnswer) IN
    /\ last' = Receipt("castVote", caller,
                       <<candidateId, nullifierHash, publicSignal0, verifierAnswer>>, err)
    /\ IF err = "ok"
       THEN /\ usedNullifiers' = [usedNullifiers EXCEPT ![nullifierHash] = TRUE]
            /\ voteCounts' = [voteCounts EXCEPT ![candidateId] = @ + 1]
            /\ totalVotes' = totalVotes
            /\ voteCastLog' = Append(voteCastLog,
                                     VoteCast(candidateId, nullifierHash, caller, now))
       ELSE UNCHANGED votes
    /\ UNCHANGED <<config, registry, paused, now>>

\* mutant: the vote is always counted in the first bucket
castVote_FirstBucket(caller, candidateId, nullifierHash, publicSignal0, verifierAnswer) ==
    LET err == castVoteError(caller, candidateId, nullifierHash, publicSignal0, verifierAnswer) IN
    /\ last' = Receipt("castVote", caller,
                       <<candidateId, nullifierHash, publicSignal0, verifierAnswer>>, err)
    /\ IF err = "ok"
       THEN /\ usedNullifiers' = [usedNullifiers EXCEPT ![nullifierHash] = TRUE]
            /\ voteCounts' = [voteCounts EXCEPT ![0] = @ + 1]
            /\ totalVotes' = totalVotes + 1
            /\ voteCastLog' = Append(voteCastLog,
                                     VoteCast(candidateId, nullifierHash, caller, now))
       ELSE UNCHANGED votes
    /\ UNCHANGED <<config, registry, paused, now>>

\* mutant: no VoteCast event is emitted
castVote_NoEmit(caller, candidateId, nullifierHash, publicSignal0, verifierAnswer) ==
    LET err == castVoteError(caller, candidateId, nullifierHash, publicSignal0, verifierAnswer) IN
    /\ last' = Receipt("castVote", caller,
                       <<candidateId, nullifierHash, publicSignal0, verifierAnswer>>, err)
    /\ IF err = "ok"
       THEN /\ usedNullifiers' = [usedNullifiers EXCEPT ![nullifierHash] = TRUE]
            /\ voteCounts' = [voteCounts EXCEPT ![candidateId] = @ + 1]
            /\ totalVotes' = totalVotes + 1
            /\ voteCastLog' = voteCastLog
       ELSE UNCHANGED votes
    /\ UNCHANGED <<config, registry, paused, now>>

\* mutant: the bucket is set from the running total instead of incremented
castVote_CountFromTotal(caller, candidateId, nullifierHash, publicSignal0, verifierAnswer) ==
    LET err == castVoteError(caller, candidateId, nullifierHash, publicSignal0, verifierAnswer) IN
    /\ last' = Receipt("castVote", caller,
                       <<candidateId, nullifierHash, publicSignal0, verifierAnswer>>, err)
    /\ IF err = "ok"
       THEN /\ usedNullifiers' = [usedNullifiers EXCEPT ![nullifierHash] = TRUE]
            /\ voteCounts' = [voteCounts EXCEPT ![candidateId] = totalVotes + 1]
            /\ totalVotes' = totalVotes + 1
            /\ voteCastLog' = Append(voteCastLog,
                                     VoteCast(candidateId, nullifierHash, caller, now))
       ELSE UNCHANGED votes
    /\ UNCHANGED <<config, registry, paused, now>>

castVote(caller, candidateId, nullifierHash, publicSignal0, verifierAnswer) ==
    LET err == castVoteError(caller, candidateId, nullifierHash, publicSignal0, verifierAnswer) IN
    /\ last' = Receipt("castVote", caller,
                       <<candidateId, nullifierHash, publicSignal0, verifierAnswer>>, err)
    /\ IF err = "ok"
       THEN /\ usedNullifiers' = [usedNullifiers EXCEPT ![nullifierHash] = TRUE]
            /\ voteCounts' = [voteCounts EXCEPT ![candidateId] = @ + 1]
            /\ totalVotes' = totalVotes + 1
            /\ voteCastLog' = Append(voteCastLog,
                                     VoteCast(candidateId, nullifierHash, caller, now))
       ELSE UNCHANGED votes
    /\ UNCHANGED <<config, registry, paused, now>>

\* ------------------------------------------------- pauseVoting / unpauseVoting
pauseVotingError(caller) ==
    IF ~onlyOwner(caller) THEN "OwnableUnauthorizedAccount"
    ELSE IF paused THEN "EnforcedPause"
    ELSE "ok"

pauseVoting(caller) ==
    LET err == pauseVotingError(caller) IN
    /\ last' = Receipt("pauseVoting", caller, <<>>, err)
    /\ paused' = IF err = "ok" THEN TRUE ELSE paused
    /\ UNCHANGED <<config, votes, registry, now>>

\* mutant: unpausing a ledger that is not paused is accepted
unpauseVotingError_NoExpectedPause(caller) ==
    IF ~onlyOwner(caller) THEN "OwnableUnauthorizedAccount"
    ELSE "ok"

unpauseVotingError(caller) ==
    IF ~onlyOwner(caller) THEN "OwnableUnauthorizedAccount"
    ELSE IF ~paused THEN "ExpectedPause"
    ELSE "ok"

\* mutant: the flag is not cleared
unpauseVoting_KeepsFlag(caller) ==
    LET err == unpauseVotingError(caller) IN
    /\ last' = Receipt("unpauseVoting", caller, <<>>, err)
    /\ paused' = paused
    /\ UNCHANGED <<config, votes, registry, now>>

unpauseVoting(caller) ==
    LET err == unpauseVotingError(caller) IN
    /\ last' = Receipt("unpauseVoting", caller, <<>>, err)
    /\ paused' = IF err = "ok" THEN FALSE ELSE paused
    /\ UNCHANGED <<config, votes, registry, now>>

\* -------------------------------------------------------------- block time
\* block.timestamp never decreases; one unit passes between two blocks
Warp ==
    /\ last = NoCall
    /\ now < MaxTime
    /\ now' = now + 1
    /\ UNCHANGED <<ledger, last>>

\* the receipt of the last transaction is dropped; the ledger stays
Forget ==
    /\ last # NoCall
    /\ last' = NoCall
    /\ UNCHANGED <<ledger, now>>

\* ---------------------------------------------------------- view functions
getAllVoteCounts == [i \in 0..(candidateCount - 1) |-> voteCounts[i]]
getVoteCount(candidateId) == voteCounts[candidateId]
isNullifierUsed(nullifierHash) == usedNullifiers[nullifierHash]
getVotingInfo ==
    [groupId |-> votingGroupId, startTime |-> votingStartTime, endTime |-> votingEndTime,
     numCandidates |-> candidateCount, votes |-> totalVotes]
\* mutant: votingInitialized is not looked at
isVotingActive_NoInit ==
    now >= votingStartTime /\ now <= votingEndTime /\ ~paused
isVotingActive ==
    votingInitialized /\ now >= votingStartTime /\ now <= votingEndTime /\ ~paused
getRelayers == relayerAddresses

\* getResultPercentages on the storage it reads: the tally `counts`, the
\* total `total` and the number of candidates `count`
\* mutant: the quotient is rounded up
ResultPercentages_RoundUp(counts, total, count) ==
    [i \in 0..(count - 1) |->
        IF total = 0 THEN 0 ELSE (counts[i] * 10000 + total - 1) \div total]
ResultPercentages(counts, total, count) ==
    [i \in 0..(count - 1) |->
        IF total = 0 THEN 0 ELSE (counts[i] * 10000) \div total]
getResultPercentages == ResultPercentages(voteCounts, totalVotes, candidateCount)

\* ------------------------------------------------------------ specification
\* one transaction, sent by one of `callers`; `relayers` are the addresses
\* the administrator is asked to register or remove
InitializeVotingCall(callers, starts, ends, counts) ==
    \E caller \in callers, g \in GroupIds, s \in starts, e \in ends, c \in counts :
        initializeVoting(caller, g, s, e, c)
AddRelayerCall(callers, relayers) ==
    \E caller \in callers, r \in relayers : addRelayer(caller, r)
RemoveRelayerCall(callers, relayers) ==
    \E caller \in callers, r \in relayers : removeRelayer(caller, r)
CastVoteCall(callers, answers) ==
    \E caller \in callers, c \in CandidateIds, n \in Nullifiers,
       s \in CandidateIds, v \in answers :
        castVote(caller, c, n, s, v)
PauseVotingCall(callers) == \E caller \in callers : pauseVoting(caller)
UnpauseVotingCall(callers) == \E caller \in callers : unpauseVoting(caller)

Accounts == {owner, relayer1}
RelayerInputs == {ZERO_ADDRESS, relayer1}

Next ==
    \/ last = NoCall /\ InitializeVotingCall(Accounts, Times, Times, 0..MaxCandidateCount)
                     /\ UNCHANGED backend
    \/ last = NoCall /\ AddRelayerCall(Accounts, RelayerInputs) /\ UNCHANGED backend
    \/ last = NoCall /\ RemoveRelayerCall(Accounts, RelayerInputs) /\ UNCHANGED backend
    \/ last = NoCall /\ CastVoteCall(Accounts, VerifierAnswers) /\ UNCHANGED backend
    \/ last = NoCall /\ PauseVotingCall(Accounts) /\ UNCHANGED backend
    \/ last = NoCall /\ UnpauseVotingCall(Accounts) /\ UNCHANGED backend
    \/ Warp /\ UNCHANGED backend
    \/ Forget /\ UNCHANGED backend

Spec == Init /\ [][Next]_vars

\* the relayer pool: two relayers registered, removed and voting, under an
\* administrator who never pauses
PoolAccounts == {owner, relayer1, relayer2}
PoolRelayers == {relayer1, relayer2}

PoolNext ==
    \/ last = NoCall /\ InitializeVotingCall({owner}, {0}, {0, MaxTime}, {MaxCandidateCount})
                     /\ UNCHANGED backend
    \/ last = NoCall /\ AddRelayerCall({owner}, PoolRelayers) /\ UNCHANGED backend
    \/ last = NoCall /\ RemoveRelayerCall({owner}, PoolRelayers) /\ UNCHANGED backend
    \/ last = NoCall /\ CastVoteCall(PoolAccounts, {"true", "false"}) /\ UNCHANGED backend
    \/ Warp /\ UNCHANGED backend
    \/ Forget /\ UNCHANGED backend

PoolSpec == Init /\ [][PoolNext]_vars

\* ================================================================ backend
\* ------------------------------------------------------------- conversions
\* Number.prototype.toString, and parseInt / BigInt of a decimal string, on
\* the candidate identifiers and counts in use
DecimalStrings == <<"0", "1", "2", "3", "4">>
toString(n) == DecimalStrings[n + 1]
parseInt(str) == CHOOSE n \in 0..(Len(DecimalStrings) - 1) : DecimalStrings[n + 1] = str
BigInt(str) == parseInt(str)

\* ------------------------------------------------------- relayer selection
undefined == "undefined"
NoRelayerWallets == "No relayer wallets available"
NoAuthorizedRelayers == "No authorized relayers found"

\* Math.floor(Math.random() * length)
randomIndex(length) == IF length = 0 THEN {0} ELSE 0..(length - 1)
\* arr[i] of a JavaScript array
At(arr, i) == IF (i + 1) \in DOMAIN arr THEN arr[i + 1] ELSE undefined

\* the values a call can produce; a thrown Error is given by its message
selectRandomRelayer ==
    IF Len(relayerWallets) = 0 THEN {NoRelayerWallets}
    ELSE {At(relayerWallets, i) : i \in randomIndex(Len(relayerWallets))}

\* manage-relayers: the list read from the contract, [] when the read fails
getCurrentRelayers(rpc) == IF rpc = "ok" THEN getRelayers ELSE <<>>

getRandomRelayer(rpc) ==
    LET relayers == getCurrentRelayers(rpc) IN
    IF Len(relayers) = 0 THEN {NoAuthorizedRelayers}
    ELSE {At(relayers, i) : i \in randomIndex(Len(relayers))}

\* generate-wallets
selectRandomWallet(wallets) == {At(wallets, i) : i \in randomIndex(Len(wallets))}

GetRandomRelayer ==
    /\ last = NoCall
    /\ \E rpc \in {"ok", "error"} : \E r \in getRandomRelayer(rpc) :
           last' = Receipt("getRandomRelayer", ZERO_ADDRESS, <<rpc>>, r)
    /\ UNCHANGED <<ledger, now, backend>>

SelectRandomWallet ==
    /\ last = NoCall
    /\ \E wallets \in WalletLists : \E r \in selectRandomWallet(wallets) :
           last' = Receipt("selectRandomWallet", ZERO_ADDRESS, <<wallets>>, r)
    /\ UNCHANGED <<ledger, now, backend>>

\* ------------------------------------------------- POST /api/vote/submit
\* res.status(status).json(...) with error code `code`; the handler is done
respond(s, status, code) ==
    [handler EXCEPT ![s] = [@ EXCEPT !.pc = "done", !.status = status, !.code = code]]

\* the request arrives; its body is destructured
Submit(s, candidateId, nullifierHash, publicSignal0, proof) ==
    /\ last = NoCall
    /\ handler[s].pc = "idle"
    /\ received < MaxRequests
    /\ received' = received + 1
    /\ handler' = [handler EXCEPT ![s] =
                       [IdleHandler EXCEPT !.pc = "getVotingConfig",
                                           !.candidateId = candidateId,
                                           !.nullifierHash = nullifierHash,
                                           !.publicSignal0 = publicSignal0,
                                           !.proof = proof]]
    /\ UNCHANGED <<ledger, now, last, relayerWallets, nullifierCache, sessionCache,
                   votingStats, mempool>>

getVotingConfig ==
    [candidateCount |-> toString(getVotingInfo.numCandidates), isActive |-> isVotingActive]

\* mutant: the local cache is looked at first
preChecks_CacheFirst(votingConfig, h) ==
    IF h.nullifierHash \in nullifierCache THEN "NULLIFIER_USED"
    ELSE IF ~votingConfig.isActive THEN "VOTING_INACTIVE"
    ELSE IF h.candidateId >= parseInt(votingConfig.candidateCount) \/ h.candidateId < 0
         THEN "INVALID_CANDIDATE"
    ELSE IF toString(h.candidateId) # h.publicSignal0 THEN "INVALID_CANDIDATE"
    ELSE "ok"

\* the checks made on the configuration and the local cache, in their order
preChecks(votingConfig, h) ==
    IF ~votingConfig.isActive THEN "VOTING_INACTIVE"
    ELSE IF h.candidateId >= parseInt(votingConfig.candidateCount) \/ h.candidateId < 0
         THEN "INVALID_CANDIDATE"
    ELSE IF toString(h.candidateId) # h.publicSignal0 THEN "INVALID_CANDIDATE"
    ELSE IF h.nullifierHash \in nullifierCache THEN "NULLIFIER_USED"
    ELSE "ok"

\* after `await getVotingConfig()`, up to `await isNullifierUsed(...)`
AfterVotingConfig(s) ==
    /\ last = NoCall
    /\ handler[s].pc = "getVotingConfig"
    /\ LET code == preChecks(getVotingConfig, handler[s]) IN
       handler' = IF code = "ok"
                  THEN [handler EXCEPT ![s].pc = "isNullifierUsed"]
                  ELSE respond(s, 400, code)
    /\ UNCHANGED <<ledger, now, last, relayerWallets, nullifierCache, sessionCache,
                   votingStats, received, mempool>>

\* after `await votingContract.isNullifierUsed(...)`, up to `await verifyZKProof(...)`
AfterIsNullifierUsed(s) ==
    /\ last = NoCall
    /\ handler[s].pc = "isNullifierUsed"
    /\ IF isNullifierUsed(handler[s].nullifierHash)
       THEN /\ nullifierCache' = nullifierCache \cup {handler[s].nullifierHash}
            /\ handler' = respond(s, 400, "NULLIFIER_USED")
       ELSE /\ handler' = [handler EXCEPT ![s].pc = "verifyZKProof"]
            /\ UNCHANGED nullifierCache
    /\ UNCHANGED <<ledger, now, last, relayerWallets, sessionCache, votingStats,
                   received, mempool>>

\* the answer of the verifier contract; an exception of the call gives false
verifyZKProof(proof) == proof = "true"

\* mutant: the failed submission is counted as a vote
catch_CountsVote(s, message) ==
    /\ votingStats' = [votingStats EXCEPT
                           !.errors = Append(@, [error |-> message, code |-> "UNKNOWN_ERROR",
                                                 sessionId |-> s]),
                           !.totalVotes = @ + 1]
    /\ handler' = respond(s, 500, "UNKNOWN_ERROR")

\* the catch block of the handler, for an Error whose message names no
\* contract error
catch(s, message) ==
    /\ votingStats' = [votingStats EXCEPT
                           !.errors = Append(@, [error |-> message, code |-> "UNKNOWN_ERROR",
                                                 sessionId |-> s])]
    /\ handler' = respond(s, 500, "UNKNOWN_ERROR")

\* after `await verifyZKProof(...)`, through selectRandomRelayer, up to
\* `await contractWithSigner.castVote(...)`
AfterVerifyZKProof(s) ==
    /\ last = NoCall
    /\ handler[s].pc = "verifyZKProof"
    /\ IF ~verifyZKProof(handler[s].proof)
       THEN /\ handler' = respond(s, 400, "INVALID_PROOF")
            /\ UNCHANGED votingStats
       ELSE \E relayerWallet \in selectRandomRelayer :
                IF relayerWallet = NoRelayerWallets
                THEN catch(s, NoRelayerWallets)
                ELSE /\ handler' = [handler EXCEPT ![s].pc = "castVote",
                                                   ![s].relayer = relayerWallet]
                     /\ UNCHANGED votingStats
    /\ UNCHANGED <<ledger, now, last, relayerWallets, nullifierCache, sessionCache,
                   received, mempool>>

\* mutant: the transaction record names the session that submitted
AfterCastVote_RecordsSession(s) ==
    /\ last = NoCall
    /\ handler[s].pc = "castVote"
    /\ LET h == handler[s]
           hash == Len(votingStats.transactions) + 1
       IN /\ mempool' = mempool \cup
                 {[hash |-> hash, from |-> h.relayer, candidateId |-> h.candidateId,
                   nullifierHash |-> h.nullifierHash,
                   publicSignal0 |-> BigInt(h.publicSignal0), proof |-> h.proof]}
          /\ nullifierCache' = nullifierCache \cup {h.nullifierHash}
          /\ sessionCache' = [sessionCache EXCEPT ![s].hasVoted = TRUE]
          /\ votingStats' = [votingStats EXCEPT
                 !.transactions = Append(@, [transactionHash |-> hash,
                                             candidateId |-> h.candidateId,
                                             nullifierHash |-> h.nullifierHash,
                                             relayerAddress |-> h.relayer,
                                             status |-> "pending",
                                             sessionId |-> s]),
                 !.totalVotes = @ + 1]
          /\ handler' = respond(s, 200, "")
    /\ UNCHANGED <<ledger, now, last, relayerWallets, received>>

\* after `await contractWithSigner.castVote(...)`: the transaction is sent,
\* with a fixed gasLimit and so without simulation, and the handler answers
AfterCastVote(s) ==
    /\ last = NoCall
    /\ handler[s].pc = "castVote"
    /\ LET h == handler[s]
           hash == Len(votingStats.transactions) + 1
       IN /\ mempool' = mempool \cup
                 {[hash |-> hash, from |-> h.relayer, candidateId |-> h.candidateId,
                   nullifierHash |-> h.nullifierHash,
                   publicSignal0 |-> BigInt(h.publicSignal0), proof |-> h.proof]}
          /\ nullifierCache' = nullifierCache \cup {h.nullifierHash}
          /\ sessionCache' = [sessionCache EXCEPT ![s].hasVoted = TRUE]
          /\ votingStats' = [votingStats EXCEPT
                 !.transactions = Append(@, [transactionHash |-> hash,
                                             candidateId |-> h.candidateId,
                                             nullifierHash |-> h.nullifierHash,
                                             relayerAddress |-> h.relayer,
                                             status |-> "pending"]),
                 !.totalVotes = @ + 1]
          /\ handler' = respond(s, 200, "")
    /\ UNCHANGED <<ledger, now, last, relayerWallets, received>>

\* the response has gone out
Close(s) ==
    /\ last = NoCall
    /\ handler[s].pc = "done"
    /\ handler' = [handler EXCEPT ![s] = IdleHandler]
    /\ UNCHANGED <<ledger, now, last, relayerWallets, nullifierCache, sessionCache,
                   votingStats, received, mempool>>

\* a sent transaction is mined, in the order of its wallet's nonces, and
\* the tx.wait() callback records its fate
Mine(tx) ==
    /\ last = NoCall
    /\ tx \in mempool
    /\ \A other \in mempool : other.from = tx.from => other.hash >= tx.hash
    /\ castVote(tx.from, tx.candidateId, tx.nullifierHash, tx.publicSignal0, tx.proof)
    /\ mempool' = mempool \ {tx}
    /\ votingStats' = [votingStats EXCEPT !.transactions[tx.hash].status =
           IF castVoteError(tx.from, tx.candidateId, tx.nullifierHash,
                            tx.publicSignal0, tx.proof) = "ok"
           THEN "confirmed" ELSE "failed"]
    /\ UNCHANGED <<relayerWallets, nullifierCache, sessionCache, handler, received>>

\* what a request body can hold
BodyCandidates == {0, MaxCandidateCount}
BodySignals == {toString(c) : c \in BodyCandidates}
BodyProofs == {"true", "false"}

BackendInit == Deployed /\ \E wallets \in WalletLists : Startup(wallets)

BackendNext ==
    \/ last = NoCall /\ InitializeVotingCall({owner}, {0}, {MaxTime}, {MaxCandidateCount})
                     /\ UNCHANGED backend
    \/ last = NoCall /\ AddRelayerCall({owner}, {relayer1}) /\ UNCHANGED backend
    \/ last = NoCall /\ RemoveRelayerCall({owner}, {relayer1}) /\ UNCHANGED backend
    \/ Forget /\ UNCHANGED backend
    \/ \E s \in Sessions, c \in BodyCandidates, n \in Nullifiers,
          sig \in BodySignals, pf \in BodyProofs : Submit(s, c, n, sig, pf)
    \/ \E s \in Sessions : AfterVotingConfig(s)
    \/ \E s \in Sessions : AfterIsNullifierUsed(s)
    \/ \E s \in Sessions : AfterVerifyZKProof(s)
    \/ \E s \in Sessions : AfterCastVote(s)
    \/ \E s \in Sessions : Close(s)
    \/ \E tx \in mempool : Mine(tx)

BackendSpec == BackendInit /\ [][BackendNext]_vars

\* the backend process is started again: its caches and statistics live in
\* memory only and start empty, the ledger keeps its state
Restart ==
    /\ last = NoCall
    /\ mempool = {}
    /\ \A s \in Sessions : handler[s].pc = "idle"
    /\ nullifierCache # {}
    /\ nullifierCache' = {}
    /\ sessionCache' = [s \in Sessions |-> [hasVoted |-> FALSE]]
    /\ votingStats' = [totalVotes |-> 0, transactions |-> <<>>, errors |-> <<>>]
    /\ UNCHANGED <<ledger, now, last, relayerWallets, handler, received, mempool>>

RestartNext ==
    \/ last = NoCall /\ InitializeVotingCall({owner}, {0}, {MaxTime}, {MaxCandidateCount})
                     /\ UNCHANGED backend
    \/ last = NoCall /\ AddRelayerCall({owner}, {relayer1}) /\ UNCHANGED backend
    \/ last = NoCall /\ RemoveRelayerCall({owner}, {relayer1}) /\ UNCHANGED backend
    \/ Forget /\ UNCHANGED backend
    \/ \E s \in Sessions, c \in BodyCandidates, n \in Nullifiers,
          sig \in BodySignals, pf \in BodyProofs : Submit(s, c, n, sig, pf)
    \/ \E s \in Sessions : AfterVotingConfig(s)
    \/ \E s \in Sessions : AfterIsNullifierUsed(s)
    \/ \E s \in Sessions : AfterVerifyZKProof(s)
    \/ \E s \in Sessions : AfterCastVote(s)
    \/ \E s \in Sessions : Close(s)
    \/ \E tx \in mempool : Mine(tx)
    \/ Restart

RestartSpec == BackendInit /\ [][RestartNext]_vars

\* the relayer scripts run against a registry the owner changes
ScriptRelayers == {owner, relayer1, relayer2}

ScriptNext ==
    \/ last = NoCall /\ AddRelayerCall({owner}, ScriptRelayers) /\ UNCHANGED backend
    \/ last = NoCall /\ RemoveRelayerCall({owner}, ScriptRelayers) /\ UNCHANGED backend
    \/ Forget /\ UNCHANGED backend
    \/ GetRandomRelayer
    \/ SelectRandomWallet

ScriptSpec == Init /\ [][ScriptNext]_vars

\* the registry alone: the owner registers and removes three addresses, and
\* is asked to register the zero address
RegistryRelayers == {ZERO_ADDRESS, owner, relayer1, relayer2}

RegistryNext ==
    \/ last = NoCall /\ AddRelayerCall({owner}, RegistryRelayers) /\ UNCHANGED backend
    \/ last = NoCall /\ RemoveRelayerCall({owner}, RegistryRelayers) /\ UNCHANGED backend
    \/ Forget /\ UNCHANGED backend

RegistrySpec == Init /\ [][RegistryNext]_vars

\* ------------------------------------------------ verify-proof.js (offline)
\* a stored proof: its publicSignals.nullifierHash and publicSignals.signal,
\* and what verifySingleProofData does with it
StoredProofs ==
    [nullifierHash : Nullifiers, signal : {toString(0), toString(1)},
     verdict : {"true", "false", "throw"}]
\* the arrays proof.json can hold
ProofFiles == UNION {[1..k -> StoredProofs] : k \in 0..MaxProofs}

verifySingleProofData(proof) == proof.verdict

\* voteTally[candidate] = (voteTally[candidate] || 0) + 1
TallyAdd(voteTally, candidate) ==
    [k \in DOMAIN voteTally \cup {candidate} |->
        (IF k \in DOMAIN voteTally THEN voteTally[k] ELSE 0)
        + (IF k = candidate THEN 1 ELSE 0)]

\* the counters of verifyAllProofs after the first i proofs
RECURSIVE verifyAllProofsLoop(_, _)
verifyAllProofsLoop(proofs, i) ==
    IF i = 0
    THEN [validProofs |-> 0, invalidProofs |-> 0, nullifierHashes |-> {},
          duplicateNullifiers |-> <<>>, voteTally |-> [k \in {} |-> 0]]
    ELSE LET before == verifyAllProofsLoop(proofs, i - 1)
             proof == proofs[i]
             nullifierHash == proof.nullifierHash
             checked ==
                 IF nullifierHash \in before.nullifierHashes
                 THEN [before EXCEPT !.duplicateNullifiers = Append(@, nullifierHash)]
                 ELSE [before EXCEPT !.nullifierHashes = @ \cup {nullifierHash}]
         IN IF verifySingleProofData(proof) = "true"
            THEN [checked EXCEPT !.validProofs = @ + 1,
                                 !.voteTally = TallyAdd(@, proof.signal)]
            ELSE [checked EXCEPT !.invalidProofs = @ + 1]

verifyAllProofs(proofs) == verifyAllProofsLoop(proofs, Len(proofs))

VerifyAllProofsCall ==
    /\ last = NoCall
    /\ \E proofs \in ProofFiles :
           last' = Receipt("verifyAllProofs", ZERO_ADDRESS, <<proofs>>,
                           verifyAllProofs(proofs))
    /\ UNCHANGED <<ledger, now, backend>>

OfflineNext ==
    \/ VerifyAllProofsCall
    \/ Forget /\ UNCHANGED backend

OfflineSpec == Init /\ [][OfflineNext]_vars

\* ------------------------------------------------------- reading a receipt
\* a step that executes a transaction: the receipt appears
IsCall(op) == last = NoCall /\ last'.op = op
Accepted(r) == r.result = "ok"
CandidateIdOf(r) == r.args[1]
NullifierOf(r) == r.args[2]
SignalOf(r) == r.args[3]
AnswerOf(r) == r.args[4]

RoundOpen == votingStartTime <= now /\ now <= votingEndTime
RecordsOf(n) == {i \in 1..Len(voteCastLog) : voteCastLog[i].nullifierHash = n}

\* a castVote receipt whose call passes every check except, possibly, the
\* nullifier check, in the state it is evaluated in
ValidButForNullifier(r) ==
    /\ r.op = "castVote"
    /\ ~paused
    /\ RoundOpen
    /\ authorizedRelayers[r.caller]
    /\ CandidateIdOf(r) < candidateCount
    /\ CandidateIdOf(r) = SignalOf(r)
    /\ AnswerOf(r) = "true"

\* ------------------------------------------------------------------ C1
\* C1: of the castVote calls that use a nullifier n and are otherwise valid,
\* by whichever relayers and in whichever order, the one that finds n unused
\* is accepted and counts one vote, every one that finds n used fails with
\* NullifierAlreadyUsed and changes nothing; over the whole run a nullifier
\* has at most one VoteCast record, and has one exactly when it is used.
NullifierStep ==
    (IsCall("castVote") /\ ValidButForNullifier(last')) =>
        IF usedNullifiers[NullifierOf(last')]
        THEN last'.result = "NullifierAlreadyUsed" /\ UNCHANGED ledger
        ELSE /\ Accepted(last')
             /\ usedNullifiers'[NullifierOf(last')]
             /\ totalVotes' = totalVotes + 1

OneRecordPerNullifier ==
    \A n \in Nullifiers :
        Cardinality(RecordsOf(n)) = IF usedNullifiers[n] THEN 1 ELSE 0

NullifierUniqueness == []OneRecordPerNullifier /\ [][NullifierStep]_vars

\* a second relayer's otherwise valid call is refused for a nullifier that
\* another relayer's accepted vote consumed
NullifierUniquenessWitness ==
    /\ ValidButForNullifier(last)
    /\ last.result = "NullifierAlreadyUsed"
    /\ \E i \in RecordsOf(NullifierOf(last)) : voteCastLog[i].relayer # last.caller

\* ------------------------------------------------------------------ C2
\* C2: a castVote call that is rejected, for whatever reason, leaves the
\* nullifiers, the tallies, totalVotes, the round configuration, the relayer
\* registry and the pause flag as they were and emits no VoteCast record.
AllOrNothingStep ==
    (IsCall("castVote") /\ ~Accepted(last')) =>
        /\ usedNullifiers' = usedNullifiers
        /\ voteCounts' = voteCounts
        /\ totalVotes' = totalVotes
        /\ voteCastLog' = voteCastLog
        /\ config' = config
        /\ registry' = registry
        /\ paused' = paused

AllOrNothingRejection == [][AllOrNothingStep]_vars

\* the last check rejected the call: the verifier said no, and the
\* nullifier is still unused
AllOrNothingWitness ==
    /\ last.op = "castVote"
    /\ last.result = "InvalidProof"
    /\ ~usedNullifiers[NullifierOf(last)]
    /\ totalVotes = 1

\* ------------------------------------------------------------------ C3
\* C3: after N accepted castVote calls (N VoteCast records), the vector
\* getAllVoteCounts has candidateCount entries and their sum equals
\* totalVotes and N.
RECURSIVE SumSeq(_, _)
SumSeq(f, n) == IF n = 0 THEN 0 ELSE f[n - 1] + SumSeq(f, n - 1)

TallyConservation ==
    /\ DOMAIN getAllVoteCounts = 0..(candidateCount - 1)
    /\ SumSeq(getAllVoteCounts, candidateCount) = totalVotes
    /\ totalVotes = Len(voteCastLog)

TallyConservationWitness ==
    /\ totalVotes = 2
    /\ candidateCount = 2
    /\ getAllVoteCounts[0] = 1
    /\ getAllVoteCounts[1] = 1

\* ------------------------------------------------------------------ C4
\* C4: an accepted castVote(candidateId, nullifierHash, ...) marks
\* nullifierHash, which was unused, and no other nullifier; adds 1 to
\* voteCounts[candidateId] and to no other count; adds 1 to totalVotes; and
\* appends one VoteCast record (candidateId, nullifierHash, caller, now).
AcceptedVoteStep ==
    (IsCall("castVote") /\ Accepted(last')) =>
        LET c == CandidateIdOf(last')
            n == NullifierOf(last')
        IN /\ ~usedNullifiers[n] /\ usedNullifiers'[n]
           /\ \A m \in Nullifiers \ {n} : usedNullifiers'[m] = usedNullifiers[m]
           /\ voteCounts'[c] = voteCounts[c] + 1
           /\ \A i \in CandidateIds \ {c} : voteCounts'[i] = voteCounts[i]
           /\ totalVotes' = totalVotes + 1
           /\ Len(voteCastLog') = Len(voteCastLog) + 1
           /\ SubSeq(voteCastLog', 1, Len(voteCastLog)) = voteCastLog
           /\ voteCastLog'[Len(voteCastLog')] =
                  [candidateId |-> c, nullifierHash |-> n,
                   relayer |-> last'.caller, timestamp |-> now]

AcceptedVoteEffect == [][AcceptedVoteStep]_vars

\* a vote for the second candidate is accepted after one for the first
AcceptedVoteWitness ==
    /\ last.op = "castVote"
    /\ Accepted(last)
    /\ CandidateIdOf(last) = 1
    /\ voteCounts[0] = 1
    /\ voteCounts[1] = 1
    /\ \A n \in Nullifiers : usedNullifiers[n]

\* ------------------------------------------------------------------ C5
\* C5 as stated: once initializeVoting has succeeded, every later
\* initializeVoting call fails with VotingAlreadyInitialized and leaves the
\* configuration unchanged.
SingleConfigurationAsStatedStep ==
    (IsCall("initializeVoting") /\ votingInitialized) =>
        /\ last'.result = "VotingAlreadyInitialized"
        /\ config' = config

SingleConfigurationAsStated == [][SingleConfigurationAsStatedStep]_vars

\* C5 as amended: once initializeVoting has succeeded, every later
\* initializeVoting call fails and leaves votingGroupId, votingStartTime,
\* votingEndTime and candidateCount unchanged; the error is
\* VotingAlreadyInitialized when the caller is the owner, and the ownership
\* error of onlyOwner when it is anyone else.
SingleConfigurationStep ==
    (IsCall("initializeVoting") /\ votingInitialized) =>
        /\ last'.result = IF last'.caller = owner
                          THEN "VotingAlreadyInitialized"
                          ELSE "OwnableUnauthorizedAccount"
        /\ votingGroupId' = votingGroupId
        /\ votingStartTime' = votingStartTime
        /\ votingEndTime' = votingEndTime
        /\ candidateCount' = candidateCount
        /\ votingInitialized'

SingleConfiguration == [][SingleConfigurationStep]_vars

\* the owner calls again with arguments that would be valid on a fresh
\* ledger and differ from the stored ones
SingleConfigurationWitness ==
    /\ last.op = "initializeVoting"
    /\ last.caller = owner
    /\ last.result = "VotingAlreadyInitialized"
    /\ votingInitialized
    /\ last.args[2] >= now /\ last.args[2] < last.args[3] /\ last.args[4] > 0
    /\ <<last.args[2], last.args[3], last.args[4]>> #
           <<votingStartTime, votingEndTime, candidateCount>>

\* ------------------------------------------------------------------ C6
\* C6: a castVote call whose candidateId differs from publicSignals[0]
\* fails and changes nothing, whatever the verifier answers; every accepted
\* vote adds 1 to the count of the bucket named by publicSignals[0].
SignalBindingStep ==
    /\ (IsCall("castVote") /\ CandidateIdOf(last') # SignalOf(last')) =>
           ~Accepted(last') /\ UNCHANGED ledger
    /\ (IsCall("castVote") /\ Accepted(last')) =>
           voteCounts'[SignalOf(last')] = voteCounts[SignalOf(last')] + 1

SignalBinding == [][SignalBindingStep]_vars

\* only the mismatch stands between the call and acceptance
SignalBindingWitness ==
    /\ last.op = "castVote"
    /\ CandidateIdOf(last) # SignalOf(last)
    /\ CandidateIdOf(last) < candidateCount
    /\ SignalOf(last) < candidateCount
    /\ ~paused /\ RoundOpen /\ authorizedRelayers[last.caller]
    /\ ~usedNullifiers[NullifierOf(last)]
    /\ AnswerOf(last) = "true"
    /\ last.result = "InvalidCandidate"

\* ------------------------------------------------------------------ C7
\* C7 as stated: a castVote call at a block time before votingStartTime or
\* after votingEndTime fails with VotingNotActive and changes nothing.
TimeGatingAsStatedStep ==
    (IsCall("castVote") /\ ~RoundOpen) =>
        last'.result = "VotingNotActive" /\ UNCHANGED ledger

TimeGatingAsStated == [][TimeGatingAsStatedStep]_vars

\* C7 as amended: a castVote call at a block time before votingStartTime or
\* after votingEndTime always fails and changes nothing, even when the
\* relayer is authorized, the proof valid and the nullifier unused; the
\* error is VotingNotActive when the ledger is not paused, and the pause
\* error (EnforcedPause) when it is paused.
TimeGatingStep ==
    (IsCall("castVote") /\ ~RoundOpen) =>
        /\ last'.result = IF paused THEN "EnforcedPause" ELSE "VotingNotActive"
        /\ UNCHANGED ledger

TimeGating == [][TimeGatingStep]_vars

\* after the end of a configured round, an authorized relayer's call with a
\* valid proof and an unused nullifier is refused
TimeGatingWitness ==
    /\ last.op = "castVote"
    /\ last.result = "VotingNotActive"
    /\ votingInitialized /\ now > votingEndTime
    /\ authorizedRelayers[last.caller]
    /\ CandidateIdOf(last) < candidateCount
    /\ CandidateIdOf(last) = SignalOf(last)
    /\ AnswerOf(last) = "true"
    /\ ~usedNullifiers[NullifierOf(last)]

\* ------------------------------------------------------------------ C8
\* C8: while paused every castVote call fails (with the pause error) and
\* changes nothing, before, inside and after the window; when unpauseVoting
\* has succeeded, every submission that is otherwise valid, inside the
\* window and with an unused nullifier would be accepted in the state it
\* leaves, and every such submission made while not paused is accepted.
OtherwiseValidArgs(caller, c, n, s, v) ==
    /\ RoundOpen
    /\ authorizedRelayers[caller]
    /\ c < candidateCount /\ c = s
    /\ ~usedNullifiers[n]
    /\ v = "true"

PauseOverrideStep ==
    /\ (IsCall("castVote") /\ paused) =>
           last'.result = "EnforcedPause" /\ UNCHANGED ledger
    /\ (IsCall("unpauseVoting") /\ Accepted(last')) =>
           /\ paused /\ ~paused'
           /\ \A caller \in Addresses, c \in CandidateIds, n \in Nullifiers :
                  OtherwiseValidArgs(caller, c, n, c, "true")' =>
                      castVoteError(caller, c, n, c, "true")' = "ok"
    /\ (IsCall("castVote") /\ ~paused
          /\ OtherwiseValidArgs(last'.caller, CandidateIdOf(last'), NullifierOf(last'),
                                SignalOf(last'), AnswerOf(last'))) =>
           Accepted(last')

PauseOverride == [][PauseOverrideStep]_vars

\* unpauseVoting has just succeeded inside the window, with a relayer
\* registered and a nullifier unused
PauseOverrideWitness ==
    /\ last.op = "unpauseVoting"
    /\ Accepted(last)
    /\ votingInitialized /\ RoundOpen
    /\ \E r \in Addresses : authorizedRelayers[r]
    /\ \E n \in Nullifiers : ~usedNullifiers[n]

\* ------------------------------------------------------------------ C9
\* C9: during an open, unpaused round a castVote call whose caller is not
\* in the relayer registry fails with UnauthorizedRelayer and changes
\* nothing; every accepted vote comes from a caller that is authorized in
\* the state in which it is accepted.
RelayerGatingStep ==
    /\ (IsCall("castVote") /\ ~paused /\ RoundOpen /\ ~authorizedRelayers[last'.caller]) =>
           last'.result = "UnauthorizedRelayer" /\ UNCHANGED ledger
    /\ (IsCall("castVote") /\ Accepted(last')) =>
           authorizedRelayers[last'.caller] /\ authorizedRelayers'[last'.caller]

RelayerGating == [][RelayerGatingStep]_vars

\* a relayer that voted while registered is refused after its removal
RelayerGatingWitness ==
    /\ last.op = "castVote"
    /\ last.result = "UnauthorizedRelayer"
    /\ ~authorizedRelayers[last.caller]
    /\ \E i \in 1..Len(voteCastLog) : voteCastLog[i].relayer = last.caller
    /\ AnswerOf(last) = "true"
    /\ CandidateIdOf(last) = SignalOf(last)
    /\ CandidateIdOf(last) < candidateCount
    /\ ~usedNullifiers[NullifierOf(last)]

\* ------------------------------------------------------------------ C10
\* C10: while initializeVoting has never succeeded no castVote call is
\* accepted, at any block time and for any caller, arguments and verifier
\* answer; every tally and totalVotes are zero, no nullifier is used and no
\* VoteCast record exists.
InertState ==
    ~votingInitialized =>
        /\ \A i \in CandidateIds : voteCounts[i] = 0
        /\ totalVotes = 0
        /\ \A n \in Nullifiers : ~usedNullifiers[n]
        /\ voteCastLog = <<>>

InertStep == (IsCall("castVote") /\ ~votingInitialized) => ~Accepted(last')

InertUntilConfigured == []InertState /\ [][InertStep]_vars

\* at time 0 of an unconfigured ledger a registered relayer's call with a
\* valid proof gets past the time check and is refused
InertWitness ==
    /\ ~votingInitialized
    /\ now = 0
    /\ last.op = "castVote"
    /\ authorizedRelayers[last.caller]
    /\ ~paused
    /\ CandidateIdOf(last) = 0 /\ SignalOf(last) = 0
    /\ AnswerOf(last) = "true"
    /\ last.result = "InvalidCandidate"

\* ------------------------------------------------------------------ C11
\* C11: castVote rejects with a different named error for each of 'round
\* not configured', 'round not open' and 'paused', so that the error alone
\* tells the cause: the pause error is given only by a paused ledger, and
\* the error of the time window (VotingNotActive) only by a configured round
\* whose window does not contain the block time.
DistinctGatingErrorsStep ==
    (IsCall("castVote") /\ ~Accepted(last')) =>
        /\ (last'.result = "EnforcedPause") => paused
        /\ (last'.result = "VotingNotActive") => (votingInitialized /\ ~RoundOpen)

DistinctGatingErrors == [][DistinctGatingErrorsStep]_vars

\* ------------------------------------------------------------------ C12
\* C12 as stated: for every candidateId >= candidateCount, castVote is
\* rejected with InvalidCandidate.
CandidateBoundAsStatedStep ==
    (IsCall("castVote") /\ CandidateIdOf(last') >= candidateCount) =>
        last'.result = "InvalidCandidate"

CandidateBoundAsStated == [][CandidateBoundAsStatedStep]_vars

\* C12 as amended: for every candidateId >= candidateCount, castVote is
\* rejected and changes nothing, and the error is InvalidCandidate when the
\* ledger is not paused, the round is open and the caller is an authorized
\* relayer (even when publicSignals[0] equals candidateId, the proof is valid
\* and the nullifier is fresh); for every candidateId < candidateCount an
\* otherwise valid call is accepted, and getVoteCount(candidateId) becomes 1
\* when it was 0.
CandidateBoundStep ==
    /\ (IsCall("castVote") /\ CandidateIdOf(last') >= candidateCount) =>
           /\ ~Accepted(last')
           /\ UNCHANGED ledger
           /\ (~paused /\ RoundOpen /\ authorizedRelayers[last'.caller]) =>
                  last'.result = "InvalidCandidate"
    /\ (IsCall("castVote") /\ CandidateIdOf(last') < candidateCount /\ ~paused
          /\ OtherwiseValidArgs(last'.caller, CandidateIdOf(last'), NullifierOf(last'),
                                SignalOf(last'), AnswerOf(last'))) =>
           /\ Accepted(last')
           /\ \A c \in CandidateIds :
                  (c = CandidateIdOf(last') /\ getVoteCount(c) = 0) =>
                      getVoteCount(c)' = 1

CandidateBound == [][CandidateBoundStep]_vars

\* the first identifier past the range, with everything else in order
CandidateBoundWitness ==
    /\ last.op = "castVote"
    /\ last.result = "InvalidCandidate"
    /\ votingInitialized
    /\ CandidateIdOf(last) = candidateCount
    /\ SignalOf(last) = CandidateIdOf(last)
    /\ AnswerOf(last) = "true"
    /\ ~usedNullifiers[NullifierOf(last)]
    /\ ~paused /\ RoundOpen /\ authorizedRelayers[last.caller]

\* ------------------------------------------------------------------ C13
\* the verifier is called, and answers, only in a call that passed every
\* check before it
ReachesVerifier(caller, c, n, s) ==
    /\ ~paused
    /\ RoundOpen
    /\ authorizedRelayers[caller]
    /\ c < candidateCount /\ c = s
    /\ ~usedNullifiers[n]

\* C13: a castVote call in which the verifier returns false fails with
\* InvalidProof and changes nothing; its nullifier stays unused and the same
\* call with a proof the verifier accepts would be accepted in the state it
\* leaves; every accepted vote is one in which the verifier was called and
\* returned true.
ProofGatingStep ==
    /\ \A caller \in Addresses, c \in CandidateIds, n \in Nullifiers :
           (/\ IsCall("castVote")
            /\ last'.caller = caller
            /\ last'.args = <<c, n, c, "false">>
            /\ ReachesVerifier(caller, c, n, c)) =>
               /\ last'.result = "InvalidProof"
               /\ UNCHANGED ledger
               /\ ~isNullifierUsed(n)'
               /\ castVoteError(caller, c, n, c, "true")' = "ok"
    /\ (IsCall("castVote") /\ Accepted(last')) =>
           /\ AnswerOf(last') = "true"
           /\ ReachesVerifier(last'.caller, CandidateIdOf(last'), NullifierOf(last'),
                              SignalOf(last'))

ProofGating == [][ProofGatingStep]_vars

\* the first submission of a round is refused by the verifier, and would be
\* accepted with a valid proof
ProofGatingWitness ==
    /\ last.op = "castVote"
    /\ last.result = "InvalidProof"
    /\ AnswerOf(last) = "false"
    /\ totalVotes = 0
    /\ ~isNullifierUsed(NullifierOf(last))
    /\ castVoteError(last.caller, CandidateIdOf(last), NullifierOf(last),
                     SignalOf(last), "true") = "ok"

\* ------------------------------------------------------------------ C14
AdminOps == {"initializeVoting", "addRelayer", "removeRelayer", "pauseVoting", "unpauseVoting"}

\* C14: in every step each voteCounts[i] and totalVotes do not decrease and
\* a used nullifier stays used; the three change only in a step that is an
\* accepted castVote, and initializeVoting, addRelayer, removeRelayer,
\* pauseVoting and unpauseVoting, accepted or not, leave them unchanged.
MonotonicVoteStateStep ==
    /\ \A i \in CandidateIds : voteCounts'[i] >= voteCounts[i]
    /\ totalVotes' >= totalVotes
    /\ \A n \in Nullifiers : usedNullifiers[n] => usedNullifiers'[n]
    /\ (<<voteCounts, totalVotes, usedNullifiers>>' # <<voteCounts, totalVotes, usedNullifiers>>) =>
           (IsCall("castVote") /\ Accepted(last'))
    /\ \A op \in AdminOps :
           IsCall(op) => UNCHANGED <<voteCounts, totalVotes, usedNullifiers>>

MonotonicVoteState == [][MonotonicVoteStateStep]_vars

\* the relayer that carried two votes is removed, and the votes stay
MonotonicVoteStateWitness ==
    /\ last.op = "removeRelayer"
    /\ Accepted(last)
    /\ totalVotes = 2
    /\ \A n \in Nullifiers : usedNullifiers[n]

\* ------------------------------------------------------------------ C15
\* C15: in a state whose block time is past votingEndTime no step changes
\* voteCounts, totalVotes or usedNullifiers, whichever call it is, and
\* getVoteCount, getAllVoteCounts, isNullifierUsed and the vote total of
\* getVotingInfo return what they returned before; once the end of a
\* configured round has passed it has passed in every later state.
FrozenAfterExpiryStep ==
    /\ (now > votingEndTime) =>
           /\ UNCHANGED <<voteCounts, totalVotes, usedNullifiers>>
           /\ \A i \in CandidateIds : getVoteCount(i)' = getVoteCount(i)
           /\ \A n \in Nullifiers : isNullifierUsed(n)' = isNullifierUsed(n)
           /\ getVotingInfo'.votes = getVotingInfo.votes
    /\ (votingInitialized /\ now > votingEndTime) =>
           /\ votingInitialized' /\ now' > votingEndTime'
           /\ getAllVoteCounts' = getAllVoteCounts

FrozenAfterExpiry == [][FrozenAfterExpiryStep]_vars

\* after the end of a round with a vote, the owner has paused and unpaused
FrozenAfterExpiryWitness ==
    /\ last.op = "unpauseVoting"
    /\ Accepted(last)
    /\ votingInitialized /\ now > votingEndTime
    /\ totalVotes >= 1

\* ------------------------------------------------------------------ C16
\* C16 as stated: once votingEndTime has passed, every state-changing call
\* is rejected and the whole ledger state stays as it was.
TerminalStateAsStatedStep ==
    (votingInitialized /\ now > votingEndTime /\ last = NoCall /\ last' # NoCall) =>
        ~Accepted(last') /\ UNCHANGED ledger

TerminalStateAsStated == [][TerminalStateAsStatedStep]_vars

\* C16 as amended: once votingEndTime has passed, every castVote and every
\* initializeVoting call is rejected, and the round configuration, the
\* tallies, totalVotes, the nullifiers and the VoteCast records stay as they
\* were, whichever call is made; only the relayer registry and the pause
\* flag can still change. The ledger remains queryable: getVotingInfo
\* returns what it returned and isVotingActive returns false.
TerminalStateStep ==
    (votingInitialized /\ now > votingEndTime) =>
        /\ (IsCall("castVote") \/ IsCall("initializeVoting")) => ~Accepted(last')
        /\ UNCHANGED <<config, votes>>
        /\ getVotingInfo' = getVotingInfo
        /\ ~isVotingActive'

TerminalState == [][TerminalStateStep]_vars

\* after the end of a round with a vote the owner registers a relayer
TerminalStateWitness ==
    /\ last.op = "addRelayer"
    /\ Accepted(last)
    /\ votingInitialized /\ now > votingEndTime
    /\ totalVotes >= 1
    /\ getRelayers = <<last.args[1]>>

\* ------------------------------------------------------------------ C17
\* C17: an accepted initializeVoting stores its four arguments and sets
\* votingInitialized; from then on no step, whichever operation it is,
\* changes votingGroupId, votingStartTime, votingEndTime, candidateCount or
\* votingInitialized.
ImmutableConfigurationStep ==
    /\ (IsCall("initializeVoting") /\ Accepted(last')) =>
           config' = <<last'.args[1], last'.args[2], last'.args[3], TRUE, last'.args[4]>>
    /\ votingInitialized =>
           /\ votingGroupId' = votingGroupId
           /\ votingStartTime' = votingStartTime
           /\ votingEndTime' = votingEndTime
           /\ candidateCount' = candidateCount
           /\ votingInitialized' = votingInitialized

ImmutableConfiguration == [][ImmutableConfigurationStep]_vars

\* a configured round has taken a vote, been paused, and the owner asks
\* for another configuration before the window has closed
ImmutableConfigurationWitness ==
    /\ votingInitialized
    /\ paused
    /\ totalVotes >= 1
    /\ last.op = "initializeVoting"
    /\ last.caller = owner
    /\ last.args[2] >= now /\ last.args[2] < last.args[3] /\ last.args[4] > 0
    /\ <<last.args[2], last.args[3], last.args[4]>> #
           <<votingStartTime, votingEndTime, candidateCount>>

\* ------------------------------------------------------------------ C18
WellFormedConfigurationState ==
    votingInitialized => (votingStartTime < votingEndTime /\ candidateCount > 0)

\* C18 as stated: both votingStartTime and votingEndTime were strictly later
\* than the block time at the moment initializeVoting succeeded.
WellFormedConfigurationAsStatedStep ==
    (IsCall("initializeVoting") /\ Accepted(last')) =>
        (votingStartTime' > now /\ votingEndTime' > now)

WellFormedConfigurationAsStated == [][WellFormedConfigurationAsStatedStep]_vars

\* C18 as amended: in every state in which the round is configured,
\* votingStartTime < votingEndTime and candidateCount > 0; at the moment
\* initializeVoting succeeded votingEndTime was strictly later than the
\* block time and votingStartTime was not earlier than the block time.
WellFormedConfigurationStep ==
    (IsCall("initializeVoting") /\ Accepted(last')) =>
        (votingStartTime' >= now /\ votingEndTime' > now)

WellFormedConfiguration ==
    []WellFormedConfigurationState /\ [][WellFormedConfigurationStep]_vars

\* a round configured to start at the block time of its configuration
WellFormedConfigurationWitness ==
    /\ last.op = "initializeVoting"
    /\ Accepted(last)
    /\ votingInitialized
    /\ now > 0
    /\ votingStartTime = now

\* ------------------------------------------------------------------ C19
InvalidRange(s, e) == s >= e \/ s < now

\* C19 as stated: on an unconfigured ledger, initializeVoting with
\* startTime >= endTime or startTime earlier than the block time fails with
\* InvalidTimeRange, and with candidateCount = 0 fails with InvalidCandidate.
ConfigurationErrorsAsStatedStep ==
    (IsCall("initializeVoting") /\ ~votingInitialized) =>
        /\ InvalidRange(last'.args[2], last'.args[3]) => last'.result = "InvalidTimeRange"
        /\ (last'.args[4] = 0) => last'.result = "InvalidCandidate"

ConfigurationErrorsAsStated == [][ConfigurationErrorsAsStatedStep]_vars

\* C19 as amended: on an unconfigured ledger, initializeVoting called by the
\* owner with startTime >= endTime or startTime earlier than the block time
\* fails with InvalidTimeRange, and with a valid time range and
\* candidateCount = 0 fails with InvalidCandidate; every failed
\* initializeVoting leaves the ledger as it was, unconfigured, and in the
\* state it leaves the owner's call with any valid arguments succeeds.
ConfigurationErrorsStep ==
    /\ (IsCall("initializeVoting") /\ ~votingInitialized /\ last'.caller = owner) =>
           /\ InvalidRange(last'.args[2], last'.args[3]) =>
                  last'.result = "InvalidTimeRange"
           /\ (~InvalidRange(last'.args[2], last'.args[3]) /\ last'.args[4] = 0) =>
                  last'.result = "InvalidCandidate"
    /\ (IsCall("initializeVoting") /\ ~votingInitialized /\ ~Accepted(last')) =>
           /\ UNCHANGED ledger
           /\ ~votingInitialized'
           /\ \A g \in GroupIds, s \in Times, e \in Times, c \in 1..MaxCandidateCount :
                  (~InvalidRange(s, e))' =>
                      initializeVotingError(owner, g, s, e, c)' = "ok"

ConfigurationErrors == [][ConfigurationErrorsStep]_vars

\* the owner asked for a round without candidates in a valid window, and a
\* valid window is still ahead
ConfigurationErrorsWitness ==
    /\ last.op = "initializeVoting"
    /\ last.caller = owner
    /\ last.result = "InvalidCandidate"
    /\ last.args[4] = 0
    /\ ~votingInitialized
    /\ now < MaxTime

\* ------------------------------------------------------------------ C20
\* C20: initializeVoting, addRelayer, removeRelayer, pauseVoting and
\* unpauseVoting called by an address other than the owner are rejected,
\* with the ownership error, and leave the configuration, the relayer
\* registry and the pause flag unchanged, also when the caller is an
\* authorized relayer.
AdministratorOnlyStep ==
    \A op \in AdminOps :
        (IsCall(op) /\ last'.caller # owner) =>
            /\ last'.result = "OwnableUnauthorizedAccount"
            /\ UNCHANGED <<config, registry, paused>>

AdministratorOnly == [][AdministratorOnlyStep]_vars

\* a registered relayer asks for its own removal from a paused ledger
AdministratorOnlyWitness ==
    /\ last.op = "removeRelayer"
    /\ last.caller # owner
    /\ authorizedRelayers[last.caller]
    /\ last.args[1] = last.caller
    /\ ~Accepted(last)
    /\ paused

\* ------------------------------------------------------------------ C21
\* C21: addRelayer of a registered address and removeRelayer of an address
\* that is not registered are rejected with an error and leave
\* authorizedRelayers and relayerAddresses unchanged; for the owner, who
\* alone gets past onlyOwner, the errors are 'Relayer already exists' and
\* 'Relayer not found'.
RegistrationErrorsStep ==
    /\ (IsCall("addRelayer") /\ authorizedRelayers[last'.args[1]]) =>
           /\ ~Accepted(last')
           /\ (last'.caller = owner) => last'.result = "Relayer already exists"
           /\ UNCHANGED <<authorizedRelayers, relayerAddresses>>
    /\ (IsCall("removeRelayer") /\ ~authorizedRelayers[last'.args[1]]) =>
           /\ ~Accepted(last')
           /\ (last'.caller = owner) => last'.result = "Relayer not found"
           /\ UNCHANGED <<authorizedRelayers, relayerAddresses>>

PauseToggleStep ==
    /\ (IsCall("pauseVoting") /\ Accepted(last')) => (~paused /\ paused')
    /\ (IsCall("unpauseVoting") /\ Accepted(last')) => (paused /\ ~paused')
    /\ (IsCall("pauseVoting") /\ paused) => (~Accepted(last') /\ paused')
    /\ (IsCall("unpauseVoting") /\ ~paused) => (~Accepted(last') /\ ~paused')
    /\ (IsCall("unpauseVoting") /\ paused /\ last'.caller = owner) =>
           (Accepted(last') /\ ~paused')

PauseToggle == [][PauseToggleStep]_vars

\* the owner unpauses a ledger that is not paused
PauseToggleWitness ==
    /\ last.op = "unpauseVoting"
    /\ last.caller = owner
    /\ last.result = "ExpectedPause"
    /\ ~paused

\* ------------------------------------------------------------------ C23
\* C23: the result of the owner's addRelayer and removeRelayer is given by
\* the address and its membership alone, whatever the round state
\* (unconfigured, pending, open, closed, paused or not), and neither call
\* changes the round configuration, the pause flag or the vote state.
RegistryIndependentStep ==
    /\ (IsCall("addRelayer") /\ last'.caller = owner) =>
           last'.result = IF last'.args[1] = ZERO_ADDRESS THEN "Invalid relayer address"
                          ELSE IF authorizedRelayers[last'.args[1]]
                               THEN "Relayer already exists"
                               ELSE "ok"
    /\ (IsCall("removeRelayer") /\ last'.caller = owner) =>
           last'.result = IF authorizedRelayers[last'.args[1]] THEN "ok"
                          ELSE "Relayer not found"
    /\ (IsCall("addRelayer") \/ IsCall("removeRelayer")) =>
           UNCHANGED <<config, paused, votes>>

RegistryIndependent == [][RegistryIndependentStep]_vars

\* a relayer is registered on a paused ledger whose round has closed
RegistryIndependentWitness ==
    /\ last.op = "addRelayer"
    /\ Accepted(last)
    /\ paused
    /\ votingInitialized /\ now > votingEndTime

\* ------------------------------------------------------------------ C24
\* C24: isVotingActive is true exactly when the round is configured, the
\* block time is in [votingStartTime, votingEndTime] and the ledger is not
\* paused; it is false before configuration, before the start, after the
\* end and while paused.
OpenStatusQuery ==
    /\ isVotingActive <=> (votingInitialized /\ RoundOpen /\ ~paused)
    /\ ~votingInitialized => ~isVotingActive
    /\ now < votingStartTime => ~isVotingActive
    /\ now > votingEndTime => ~isVotingActive
    /\ paused => ~isVotingActive

\* time 0 of an unconfigured ledger lies in the empty window [0, 0]
OpenStatusQueryWitness ==
    /\ ~votingInitialized
    /\ RoundOpen
    /\ ~paused
    /\ ~isVotingActive
    /\ \E r \in Addresses : authorizedRelayers[r]

\* ------------------------------------------------------------------ C25
\* C25: an accepted castVote appends exactly one VoteCast record, carrying
\* its candidateId, its nullifierHash, the caller and the block time; no
\* other step, and no rejected castVote, changes the sequence of records,
\* so earlier records are never altered or removed.
VoteRecordStep ==
    /\ (IsCall("castVote") /\ Accepted(last')) =>
           voteCastLog' = voteCastLog \o
               <<VoteCast(CandidateIdOf(last'), NullifierOf(last'), last'.caller, now)>>
    /\ ~(IsCall("castVote") /\ Accepted(last')) => voteCastLog' = voteCastLog
    /\ Len(voteCastLog') >= Len(voteCastLog)
    /\ SubSeq(voteCastLog', 1, Len(voteCastLog)) = voteCastLog

VoteRecord == [][VoteRecordStep]_vars

\* two records of different block times, and a rejected call after them
VoteRecordWitness ==
    /\ Len(voteCastLog) = 2
    /\ voteCastLog[1].timestamp < voteCastLog[2].timestamp
    /\ last.op = "castVote"
    /\ last.result = "NullifierAlreadyUsed"

\* ------------------------------------------------------------------ C26
\* C26: on a ledger whose only accepted vote is nullifier n for candidate 0,
\* carried by relayer r in an open, unpaused round with a second candidate,
\* r's submission of n for candidate 1 with a valid proof fails with
\* NullifierAlreadyUsed and changes nothing; a submission of another
\* nullifier for candidate 1 by an authorized relayer is accepted and gives
\* voteCounts[1] = 1 and totalVotes = 2.
AfterFirstVote(r, n) ==
    /\ voteCastLog # <<>>
    /\ Len(voteCastLog) = 1
    /\ voteCastLog[1].candidateId = 0
    /\ voteCastLog[1].nullifierHash = n
    /\ voteCastLog[1].relayer = r
    /\ ~paused /\ RoundOpen /\ candidateCount > 1

ExampleScenarioStep ==
    \A r \in Addresses, n \in Nullifiers, m \in Nullifiers :
        (IsCall("castVote") /\ AfterFirstVote(r, n)) =>
            /\ (last'.caller = r /\ authorizedRelayers[r]
                  /\ last'.args = <<1, n, 1, "true">>) =>
                   /\ last'.result = "NullifierAlreadyUsed"
                   /\ UNCHANGED ledger
            /\ (authorizedRelayers[last'.caller] /\ m # n
                  /\ last'.args = <<1, m, 1, "true">>) =>
                   /\ Accepted(last')
                   /\ voteCounts'[1] = 1
                   /\ voteCounts'[0] = 1
                   /\ totalVotes' = 2

ExampleScenario == [][ExampleScenarioStep]_vars

\* the relayer of the first vote has resubmitted its nullifier for the
\* other candidate
ExampleScenarioWitness ==
    /\ last.op = "castVote"
    /\ last.result = "NullifierAlreadyUsed"
    /\ last.args = <<1, voteCastLog[1].nullifierHash, 1, "true">>
    /\ AfterFirstVote(last.caller, NullifierOf(last))
    /\ totalVotes = 1
    /\ voteCounts[1] = 0

\* ------------------------------------------------------------------ C27
\* the tallies, the total and the used nullifiers are given by the records
\* of the accepted votes, whatever the order of the records
TallyFromRecords ==
    /\ \A i \in CandidateIds :
           voteCounts[i] =
               Cardinality({k \in 1..Len(voteCastLog) : voteCastLog[k].candidateId = i})
    /\ totalVotes = Len(voteCastLog)
    /\ \A n \in Nullifiers : usedNullifiers[n] <=> RecordsOf(n) # {}

\* C27: of two submissions with distinct nullifiers that would each be
\* accepted, for the same or different candidates and from the same or
\* different relayers, the one processed second is still accepted after the
\* first; and voteCounts, totalVotes and the used nullifiers are a function
\* of which votes were accepted and not of their order.
CommutativeStep ==
    \A b \in Addresses, c \in CandidateIds, n \in Nullifiers :
        (/\ IsCall("castVote") /\ Accepted(last')
         /\ n # NullifierOf(last')
         /\ castVoteError(b, c, n, c, "true") = "ok") =>
            castVoteError(b, c, n, c, "true")' = "ok"

CommutativeAcceptance == []TallyFromRecords /\ [][CommutativeStep]_vars

\* two votes of one block time, from different relayers for different
\* candidates
CommutativeAcceptanceWitness ==
    /\ Len(voteCastLog) = 2
    /\ voteCastLog[1].timestamp = voteCastLog[2].timestamp
    /\ voteCastLog[1].relayer # voteCastLog[2].relayer
    /\ voteCastLog[1].candidateId # voteCastLog[2].candidateId
    /\ voteCounts[0] = 1 /\ voteCounts[1] = 1

\* ------------------------------------------------------------------ C28
\* the handler of session s has just selected a relayer wallet
Selects(s) == handler[s].pc = "verifyZKProof" /\ handler'[s].pc = "castVote"

\* C28: whenever relayer selection returns an identity - selectRandomRelayer
\* in the submit handler, getRandomRelayer in the script - that identity is
\* in the ledger's relayer registry at the time of the selection.
SelectionInRegistryStep ==
    /\ \A s \in Sessions : Selects(s) => authorizedRelayers[handler'[s].relayer]
    /\ (IsCall("getRandomRelayer") /\ last'.result \in Addresses) =>
           authorizedRelayers[last'.result]

SelectionInRegistry == [][SelectionInRegistryStep]_vars

\* ------------------------------------------------------------------ C29
\* C29: a relayer selection from an empty set fails with a condition that
\* names the lack of relayers: it returns neither a relayer nor undefined,
\* the submitter is not answered with the unknown-error code, and no
\* transaction is sent.
NoRelayerAvailableStep ==
    /\ \A s \in Sessions :
           (/\ handler[s].pc = "verifyZKProof" /\ handler'[s].pc # "verifyZKProof"
            /\ verifyZKProof(handler[s].proof)
            /\ relayerWallets = <<>>) =>
               /\ handler'[s].pc = "done"
               /\ handler'[s].code \notin {"UNKNOWN_ERROR", ""}
               /\ mempool' = mempool
    /\ (IsCall("selectRandomWallet") /\ last'.args[1] = <<>>) =>
           last'.result \notin (Addresses \cup {undefined})
    /\ (IsCall("getRandomRelayer") /\ getCurrentRelayers(last'.args[1]) = <<>>) =>
           last'.result \notin (Addresses \cup {undefined})

NoRelayerAvailable == [][NoRelayerAvailableStep]_vars

\* ------------------------------------------------------------------ C30
\* the place of the handler in the order of its stages
StageRank(pc) ==
    CASE pc = "idle" -> 0
      [] pc = "getVotingConfig" -> 1
      [] pc = "isNullifierUsed" -> 2
      [] pc = "verifyZKProof" -> 3
      [] pc = "castVote" -> 4
      [] pc = "done" -> 5

Moves(s) == handler'[s].pc # handler[s].pc
Fails(s, status, code) ==
    /\ handler'[s].pc = "done"
    /\ handler'[s].status = status
    /\ handler'[s].code = code

\* C30: a submission goes through round-is-open check, candidate checks,
\* local nullifier cache, nullifier on the ledger, proof pre-verification,
\* relayer selection and dispatch in this order; it is answered with the
\* error of the first stage that fails and goes no further, and the proof
\* is verified, a relayer selected and a transaction sent only after the
\* stages before have passed.
PipelineOrderStep ==
    \A s \in Sessions :
        LET h == handler[s] IN
        /\ (Moves(s) /\ handler'[s].pc \notin {"done", "idle"}) =>
               StageRank(handler'[s].pc) = StageRank(h.pc) + 1
        /\ (Moves(s) /\ h.pc = "getVotingConfig") =>
               IF ~isVotingActive THEN Fails(s, 400, "VOTING_INACTIVE")
               ELSE IF h.candidateId >= candidateCount
                    THEN Fails(s, 400, "INVALID_CANDIDATE")
               ELSE IF toString(h.candidateId) # h.publicSignal0
                    THEN Fails(s, 400, "INVALID_CANDIDATE")
               ELSE IF h.nullifierHash \in nullifierCache
                    THEN Fails(s, 400, "NULLIFIER_USED")
               ELSE handler'[s].pc = "isNullifierUsed"
        /\ (Moves(s) /\ h.pc = "isNullifierUsed") =>
               IF usedNullifiers[h.nullifierHash]
               THEN Fails(s, 400, "NULLIFIER_USED")
               ELSE handler'[s].pc = "verifyZKProof"
        /\ (Moves(s) /\ h.pc = "verifyZKProof") =>
               IF h.proof # "true" THEN Fails(s, 400, "INVALID_PROOF")
               ELSE IF relayerWallets = <<>> THEN Fails(s, 500, "UNKNOWN_ERROR")
               ELSE /\ handler'[s].pc = "castVote"
                    /\ \E i \in DOMAIN relayerWallets :
                           handler'[s].relayer = relayerWallets[i]
        /\ (Moves(s) /\ h.pc # "castVote") => mempool' = mempool
        /\ (Moves(s) /\ h.pc = "castVote") =>
               /\ Fails(s, 200, "")
               /\ \E tx \in mempool' \ mempool :
                      /\ mempool' = mempool \cup {tx}
                      /\ tx.from = h.relayer
                      /\ tx.candidateId = h.candidateId
                      /\ tx.nullifierHash = h.nullifierHash

PipelineOrder == [][PipelineOrderStep]_vars

\* the candidate check has stopped a submission that the cache, the
\* verifier and the relayer selection would have stopped as well
PipelineOrderWitness ==
    \E s \in Sessions :
        /\ handler[s].pc = "done"
        /\ handler[s].code = "INVALID_CANDIDATE"
        /\ isVotingActive
        /\ handler[s].candidateId >= candidateCount
        /\ handler[s].nullifierHash \in nullifierCache
        /\ handler[s].proof = "false"

\* ------------------------------------------------------------------ C31
\* C31: a submission is answered as a success, and counted in the
\* statistics of the backend, only if the ledger has accepted its vote: a
\* handler that has answered 200 has its VoteCast record on the ledger, and
\* the backend counts no more votes than the ledger has accepted.
AuthoritativeResult ==
    /\ \A s \in Sessions :
           (handler[s].pc = "done" /\ handler[s].status = 200) =>
               \E i \in DOMAIN voteCastLog :
                   /\ voteCastLog[i].nullifierHash = handler[s].nullifierHash
                   /\ voteCastLog[i].candidateId = handler[s].candidateId
                   /\ voteCastLog[i].relayer = handler[s].relayer
    /\ votingStats.totalVotes <= totalVotes

\* ------------------------------------------------------------------ C32
\* a transaction carrying the nullifier n has been sent and not yet mined
InFlight(n) == \E tx \in mempool : tx.nullifierHash = n

\* C32: the local nullifier cache refuses no submission whose nullifier the
\* ledger has not consumed: when the cache check answers NULLIFIER_USED, the
\* nullifier is used on the ledger, or a transaction that carries it is
\* still on its way to the ledger.
AdvisoryCacheStep ==
    \A s \in Sessions :
        (/\ Moves(s)
         /\ handler[s].pc = "getVotingConfig"
         /\ Fails(s, 400, "NULLIFIER_USED")) =>
            \/ usedNullifiers[handler[s].nullifierHash]
            \/ InFlight(handler[s].nullifierHash)

AdvisoryCache == [][AdvisoryCacheStep]_vars

\* ------------------------------------------------------------------ C33
\* the handler of s is in a stage before the ledger call and takes a step
PreLedgerStep(s) ==
    /\ Moves(s)
    /\ handler[s].pc \in {"idle", "getVotingConfig", "isNullifierUsed", "verifyZKProof"}

\* what the claim lists beside the nullifier cache
PreLedgerFrame ==
    /\ UNCHANGED <<ledger, mempool, sessionCache>>
    /\ votingStats'.transactions = votingStats.transactions
    /\ votingStats'.totalVotes = votingStats.totalVotes

\* C33 as stated: a step of a submission before the ledger call, whether it
\* goes on to the next stage or is rejected, leaves the ledger, the local
\* nullifier cache, hasVoted of the session, the transaction list and the
\* vote counter unchanged.
SideEffectFreeAsStatedStep ==
    \A s \in Sessions :
        PreLedgerStep(s) => (PreLedgerFrame /\ nullifierCache' = nullifierCache)

SideEffectFreeAsStated == [][SideEffectFreeAsStatedStep]_vars

\* C33: a step of a submission before the ledger call, whether it goes on
\* to the next stage or is rejected, leaves the ledger, hasVoted of the
\* session, the transaction list and the vote counter unchanged; the local
\* nullifier cache is unchanged as well, except that a rejection because
\* the ledger reports the nullifier as used adds that nullifier to it.
SideEffectFreeStep ==
    \A s \in Sessions :
        PreLedgerStep(s) =>
            /\ PreLedgerFrame
            /\ IF handler[s].pc = "isNullifierUsed" /\ handler'[s].pc = "done"
               THEN /\ usedNullifiers[handler[s].nullifierHash]
                    /\ nullifierCache' = nullifierCache \cup {handler[s].nullifierHash}
               ELSE nullifierCache' = nullifierCache

SideEffectFree == [][SideEffectFreeStep]_vars

\* a submission was rejected because the ledger reported its nullifier as
\* used, which the cache of the restarted backend did not hold before
SideEffectFreeWitness ==
    /\ votingStats.transactions = <<>>
    /\ votingStats.totalVotes = 0
    /\ \E s \in Sessions :
           /\ handler[s].pc = "done"
           /\ handler[s].code = "NULLIFIER_USED"
           /\ usedNullifiers[handler[s].nullifierHash]
           /\ nullifierCache = {handler[s].nullifierHash}
           /\ ~sessionCache[s].hasVoted

\* ------------------------------------------------------------------ C34
\* the fields that name a participant, and the fields that name a vote
IdentityFields == {"sessionId", "email"}
VoteFields == {"candidateId", "nullifierHash", "transactionHash", "publicSignal0", "proof"}

\* no record of the ledger, of the transactions on their way to it, or of
\* the backend holds a participant together with a vote
RecordsUnlinked ==
    /\ \A i \in DOMAIN voteCastLog :
           DOMAIN voteCastLog[i] = {"candidateId", "nullifierHash", "relayer", "timestamp"}
    /\ \A tx \in mempool : DOMAIN tx \cap IdentityFields = {}
    /\ \A i \in DOMAIN votingStats.transactions :
           DOMAIN votingStats.transactions[i] \cap IdentityFields = {}
    /\ \A i \in DOMAIN votingStats.errors :
           /\ DOMAIN votingStats.errors[i] \cap VoteFields = {}
           /\ votingStats.errors[i].error = NoRelayerWallets
    /\ \A s \in Sessions : DOMAIN sessionCache[s] \cap VoteFields = {}

\* the ledger changes by the transactions alone, and a transaction carries
\* the payload and the relayer and nothing of the session it came from
LedgerFromPayloadStep ==
    /\ \A s \in Sessions : Moves(s) => UNCHANGED ledger
    /\ \A s \in Sessions :
           (Moves(s) /\ handler[s].pc = "castVote") =>
               mempool' = mempool \cup
                   {[hash |-> Len(votingStats.transactions) + 1,
                     from |-> handler[s].relayer,
                     candidateId |-> handler[s].candidateId,
                     nullifierHash |-> handler[s].nullifierHash,
                     publicSignal0 |-> parseInt(handler[s].publicSignal0),
                     proof |-> handler[s].proof]}
    /\ (IsCall("castVote") /\ Accepted(last')) =>
           /\ \E tx \in mempool \ mempool' :
                  /\ tx.from = last'.caller
                  /\ tx.candidateId = CandidateIdOf(last')
                  /\ tx.nullifierHash = NullifierOf(last')
           /\ voteCastLog' = Append(voteCastLog,
                                    VoteCast(CandidateIdOf(last'), NullifierOf(last'),
                                             last'.caller, now))

Tallies(count, total) ==
    {f \in [0..(count - 1) -> 0..total] : SumSeq(f, count) = total}

\* getResultPercentages on a ledger that holds a tally of up to MaxVotes
\* votes
ResultPercentagesCall ==
    /\ last = NoCall
    /\ \E count \in 1..MaxCandidateCount, total \in 0..MaxVotes :
           \E counts \in Tallies(count, total) :
               last' = Receipt("getResultPercentages", ZERO_ADDRESS,
                               <<counts, total, count>>,
                               ResultPercentages(counts, total, count))
    /\ UNCHANGED <<ledger, now, backend>>

PercentNext ==
    \/ last = NoCall /\ InitializeVotingCall({owner}, {0}, {MaxTime}, 1..MaxCandidateCount)
                     /\ UNCHANGED backend
    \/ last = NoCall /\ AddRelayerCall({owner}, {relayer1}) /\ UNCHANGED backend
    \/ last = NoCall /\ CastVoteCall({relayer1}, {"true"}) /\ UNCHANGED backend
    \/ Forget /\ UNCHANGED backend
    \/ ResultPercentagesCall

PercentSpec == Init /\ [][PercentNext]_vars

\* p is what the claim says of the tally counts, total, count
PercentagesOf(p, counts, total, count) ==
    /\ DOMAIN p = 0..(count - 1)
    /\ total = 0 => \A i \in DOMAIN p : p[i] = 0
    /\ total > 0 => \A i \in DOMAIN p :
           /\ p[i] * total <= counts[i] * 10000
           /\ counts[i] * 10000 < (p[i] + 1) * total
    /\ SumSeq(p, count) <= 10000
    /\ total > 0 => SumSeq(p, count) > 10000 - count

PercentagesInState ==
    PercentagesOf(getResultPercentages, voteCounts, totalVotes, candidateCount)

PercentagesStep ==
    IsCall("getResultPercentages") =>
        PercentagesOf(last'.result, last'.args[1], last'.args[2], last'.args[3])

\* C35: getResultPercentages returns candidateCount entries, all zero when
\* totalVotes is 0 and otherwise entry i = floor(voteCounts[i] * 10000 /
\* totalVotes); the entries sum to at most 10000, and to more than
\* 10000 - candidateCount when totalVotes > 0.
ResultPercentagesSound == []PercentagesInState /\ [][PercentagesStep]_vars

\* a tally whose percentages lose to rounding
ResultPercentagesWitness ==
    /\ last.op = "getResultPercentages"
    /\ last.args[2] > 0
    /\ SumSeq(last.result, last.args[3]) < 10000

\* ------------------------------------------------------------------ C36
\* the number of votes in a tally
RECURSIVE SumTally(_)
SumTally(voteTally) ==
    IF DOMAIN voteTally = {} THEN 0
    ELSE LET k == CHOOSE c \in DOMAIN voteTally : TRUE
         IN voteTally[k] + SumTally([c \in DOMAIN voteTally \ {k} |-> voteTally[c]])

\* C36: the tally of verifyAllProofs holds one vote for each distinct
\* nullifier hash among the valid proofs: a valid proof whose nullifier has
\* occurred in an earlier proof adds nothing to it.
OfflineTallyStep ==
    IsCall("verifyAllProofs") =>
        LET proofs == last'.args[1]
            valid == {i \in DOMAIN proofs : proofs[i].verdict = "true"}
        IN SumTally(last'.result.voteTally)
               = Cardinality({proofs[i].nullifierHash : i \in valid})

OfflineTally == [][OfflineTallyStep]_vars

\* ------------------------------------------------------------------ C37
\* the conditions a castVote receipt r violates in the state it is
\* evaluated in, by their place in the order of the checks
Violates(r, k) ==
    CASE k = 1 -> paused
      [] k = 2 -> ~RoundOpen
      [] k = 3 -> ~authorizedRelayers[r.caller]
      [] k = 4 -> CandidateIdOf(r) >= candidateCount
      [] k = 5 -> CandidateIdOf(r) # SignalOf(r)
      [] k = 6 -> usedNullifiers[NullifierOf(r)]
      [] k = 7 -> AnswerOf(r) = "false"

ErrorOfCheck(k) ==
    CASE k = 1 -> "EnforcedPause"
      [] k = 2 -> "VotingNotActive"
      [] k = 3 -> "UnauthorizedRelayer"
      [] k = 4 -> "InvalidCandidate"
      [] k = 5 -> "InvalidCandidate"
      [] k = 6 -> "NullifierAlreadyUsed"
      [] k = 7 -> "InvalidProof"

\* C37: a castVote call that violates several conditions fails with the
\* error of the first one in the order paused, outside the window,
\* unauthorized relayer, candidate out of range, candidate/signal mismatch,
\* nullifier used, invalid proof, and changes nothing; a call with a used
\* nullifier fails with NullifierAlreadyUsed whatever the verifier would
\* answer, so the verifier is not consulted.
CheckPrecedenceStep ==
    IsCall("castVote") =>
        /\ \A k \in 1..7 :
               (Violates(last', k) /\ \A j \in 1..(k - 1) : ~Violates(last', j)) =>
                   last'.result = ErrorOfCheck(k) /\ UNCHANGED ledger
        /\ (Violates(last', 6) /\ \A j \in 1..5 : ~Violates(last', j)) =>
               \A v \in VerifierAnswers :
                   castVoteError(last'.caller, CandidateIdOf(last'), NullifierOf(last'),
                                 SignalOf(last'), v) = "NullifierAlreadyUsed"

CheckPrecedence == [][CheckPrecedenceStep]_vars

\* a call with a used nullifier and an invalid proof has failed with
\* NullifierAlreadyUsed
CheckPrecedenceWitness ==
    /\ last.op = "castVote"
    /\ last.result = "NullifierAlreadyUsed"
    /\ usedNullifiers[NullifierOf(last)]
    /\ AnswerOf(last) = "false"

\* ------------------------------------------------------------------ C38
Members(arr) == {arr[i] : i \in DOMAIN arr}

RegistryConsistent ==
    /\ Members(getRelayers) = {a \in Addresses : authorizedRelayers[a]}
    /\ Cardinality(Members(getRelayers)) = Len(getRelayers)
    /\ ZERO_ADDRESS \notin Members(getRelayers)

RegistryChangeStep ==
    /\ (IsCall("removeRelayer") /\ Accepted(last')) =>
           /\ Members(getRelayers)' = Members(getRelayers) \ {last'.args[1]}
           /\ Len(getRelayers') = Len(getRelayers) - 1
    /\ (IsCall("addRelayer") /\ Accepted(last')) =>
           /\ Members(getRelayers)' = Members(getRelayers) \cup {last'.args[1]}
           /\ Len(getRelayers') = Len(getRelayers) + 1

\* C38: after any sequence of addRelayer and removeRelayer calls the list
\* getRelayers returns holds exactly the addresses whose authorizedRelayers
\* flag is set, each once, and never the zero address; removeRelayer(r)
\* takes r out of the list and keeps every other member.
RegistryConsistency == []RegistryConsistent /\ [][RegistryChangeStep]_vars

\* the first of three registered addresses was removed: the last one has
\* taken its place
RegistryConsistencyWitness ==
    /\ last.op = "removeRelayer"
    /\ Accepted(last)
    /\ last.args[1] = owner
    /\ getRelayers = <<relayer2, relayer1>>

\* ------------------------------------------------------------------ C39
\* a castVote receipt whose call passes every check except, possibly, those
\* of the pause flag and of the window, in the state it is evaluated in
ValidButForWindow(r) ==
    /\ r.op = "castVote"
    /\ authorizedRelayers[r.caller]
    /\ CandidateIdOf(r) < candidateCount
    /\ CandidateIdOf(r) = SignalOf(r)
    /\ ~usedNullifiers[NullifierOf(r)]
    /\ AnswerOf(r) = "true"

\* C39: the round is open on the closed interval [votingStartTime,
\* votingEndTime]: an otherwise valid castVote is accepted at block time
\* votingStartTime and at votingEndTime, is rejected at votingStartTime - 1
\* and at votingEndTime + 1, and is accepted exactly when isVotingActive
\* holds.
WindowBoundariesStep ==
    (IsCall("castVote") /\ ValidButForWindow(last')) =>
        /\ (~paused /\ now \in {votingStartTime, votingEndTime}) => Accepted(last')
        /\ now \in {votingStartTime - 1, votingEndTime + 1} =>
               /\ ~Accepted(last')
               /\ ~paused => last'.result = "VotingNotActive"
               /\ UNCHANGED ledger
        /\ Accepted(last') <=> isVotingActive

WindowBoundaries == [][WindowBoundariesStep]_vars

\* a vote was accepted at votingEndTime, and one unit later an otherwise
\* valid call is rejected
WindowBoundariesWitness ==
    /\ last.op = "castVote"
    /\ last.result = "VotingNotActive"
    /\ ValidButForWindow(last)
    /\ now = votingEndTime + 1
    /\ \E i \in DOMAIN voteCastLog : voteCastLog[i].timestamp = votingEndTime

\* ------------------------------------------------------------------ C40
\* C40: in every reachable state totalVotes is the number of nullifiers
\* marked used and the number of VoteCast records, and voteCounts[i] is 0
\* for every i >= candidateCount.
VoteStateConsistency ==
    /\ totalVotes = Cardinality({n \in Nullifiers : isNullifierUsed(n)})
    /\ totalVotes = Len(voteCastLog)
    /\ \A i \in CandidateIds : i >= candidateCount => getVoteCount(i) = 0

\* two votes are counted, and a vote for the first identifier outside the
\* range has been refused
VoteStateConsistencyWitness ==
    /\ totalVotes = 2
    /\ last.op = "castVote"
    /\ last.result = "InvalidCandidate"
    /\ CandidateIdOf(last) = candidateCount
    /\ CandidateIdOf(last) = SignalOf(last)
====
